---------------------------- MODULE Spec2Model ----------------------------
(***************************************************************************)
(* A model of the site scraper: the extraction batch queue                 *)
(* (LLMBatchProcessor, src/src/llmProcessor.ts) and the acquisition chain  *)
(* (DownloadStrategyChain, src/unnamed/part_003) with its strategies.      *)
(*                                                                         *)
(* The program runs on one JavaScript event loop: every action below is    *)
(* one run-to-completion step (a call, a timer callback, or the            *)
(* continuation of an await).                                              *)
(***************************************************************************)
EXTENDS Integers, Sequences, FiniteSets, TLC

(***************************************************************************)
(* Bounds of the model.                                                    *)
(***************************************************************************)
\* queueItem calls in one behaviour of Spec
MaxEnqueue == 3
\* distinct site names the callers of Spec pass to queueItem
NumSites == 2
\* queueItem calls in one behaviour of SpecSize (each with its own site name)
MaxBurst == 21
\* processRemainingItems calls in one behaviour
MaxDrain == 1
\* queueItem calls in one behaviour of SpecLate (each with its own site name)
MaxLate == 22
\* longest list of links passed to findContactLinks
MaxLinks == 3
\* longest list of sites given to the worker pool
MaxSites == 3
\* largest concurrency limit of the worker pool
MaxLimit == 2
\* file operations enqueued in one behaviour of SpecSink
MaxOps == 3
\* most elements of a document given to findMainContent
MaxNodes == 3

(***************************************************************************)
(* Program constants.                                                      *)
(***************************************************************************)
batchSize == 20
maxRetries == 2

VARIABLES
  apiKey,            \* process.env.GEMINI_API_KEY is set
  queue,             \* LLMBatchProcessor.queue: sequence of [siteName, req]
  processing,        \* LLMBatchProcessor.processing
  pendingResolvers,  \* LLMBatchProcessor.pendingResolvers: siteName -> req
  timers,            \* armed setTimeout callbacks of queueItem, not yet run
  flights,           \* processBatch invocations between their start and finally
  awaiting,          \* requests whose promise (returned by queueItem) is pending
  nEnq,              \* number of queueItem calls made so far
  nDrain,            \* number of processRemainingItems calls made so far
  flushCount,        \* number of batches taken from the queue so far
  lateEnqueue,       \* some queueItem call came after a batch had been taken
  sent,              \* per request: the number of batches it was taken into
  ev,                \* what the last step did, as its callers observe it
  chainStrategies,   \* DownloadStrategyChain.strategies
  chainPc,           \* DownloadStrategyChain.execute: where the call is
  chainUrl,          \* execute: url
  chainIdx,          \* execute: index of the strategy the for loop is at
  lastError,         \* execute: lastError
  invoked,           \* execute: the download calls made, with the error held then
  chainOut,          \* execute: what the call returned or threw
  cfPc,              \* findContactLinks: not yet called, or returned
  cfLinks,           \* findContactLinks: links
  cfMain,            \* findContactLinks: mainPageUrl
  cfOut,             \* findContactLinks: the array returned
  fetch,             \* fetchHtml of a direct strategy: the call and its outcome
  wait,              \* waitForPageContent: the locals of the call and the clock
  pass,              \* processContactPages: the locals of the call
  site,              \* SiteProcessor.processSite: the locals of the call
  poolPc,            \* processWithWorkerQueue: where the call is
  poolSites,         \* processWithWorkerQueue: sites
  concurrencyLimit,  \* processWithWorkerQueue: concurrencyLimit
  siteQueue,         \* processWithWorkerQueue: queue
  completed,         \* processWithWorkerQueue: completed
  activeWorkers,     \* processWithWorkerQueue: activeWorkers
  resolved,          \* number of calls of resolve of the completion promise
  pipeline,          \* per position of sites: where its processNext call is
  counts,            \* the five counters of processWithWorkerQueue
  allResults,        \* processWithWorkerQueue: allResults
  fileOps,           \* FileOperationQueue.queue and the operation that runs
  taken,             \* the urls shifted from queue, in the order of the shifts
  processor,         \* runApp: the SiteProcessor passed to processWithWorkerQueue
  sink,              \* FileOperationQueue and all_results.json, on their own
  scoring,           \* findMainContent: the document of the call and its result
  render             \* a rendering operation and the browser it launched

queueVars == <<apiKey, queue, processing, pendingResolvers, timers, flights,
               awaiting, nEnq, nDrain, flushCount, lateEnqueue, sent, ev>>
chainVars == <<chainStrategies, chainPc, chainUrl, chainIdx, lastError, invoked,
               chainOut>>
contactVars == <<cfPc, cfLinks, cfMain, cfOut>>
siteVars == <<site>>
fetchVars == <<fetch>>
pageVars == <<wait, pass>>
unitVars == <<sink, scoring, render>>
poolVars == <<poolPc, poolSites, concurrencyLimit, siteQueue, completed,
              activeWorkers, resolved, pipeline, counts, allResults, fileOps,
              taken, processor>>
restVars == <<contactVars, siteVars, poolVars, fetchVars, pageVars, unitVars>>
vars == <<queueVars, chainVars, restVars>>

Sites == 1..NumSites

(***************************************************************************)
(* Small helpers.                                                          *)
(***************************************************************************)
Range(s) == {s[i] : i \in DOMAIN s}

RECURSIVE Pow2(_)
Pow2(n) == IF n = 0 THEN 1 ELSE 2 * Pow2(n - 1)

\* Map<string, resolver> operations
MapSet(m, k, v) == [x \in (DOMAIN m) \cup {k} |-> IF x = k THEN v ELSE m[x]]
MapDelete(m, k) == [x \in (DOMAIN m) \ {k} |-> m[x]]
EmptyMap == [x \in {} |-> 0]

SiteNamesOf(batch) == {batch[i].siteName : i \in DOMAIN batch}
ReqsOf(batch) == {batch[i].req : i \in DOMAIN batch}

(***************************************************************************)
(* Errors of one inference attempt.  A message is the sequence of the      *)
(* fragments it is made of; String.includes is fragment membership.        *)
(***************************************************************************)
includes(message, fragment) == \E i \in DOMAIN message : message[i] = fragment

ErrFetchFailed == [type |-> "TypeError", message |-> <<"fetch failed">>]
ErrRateLimit   == [type |-> "Error",
                   message |-> <<"Gemini API error: ", "429", "quota">>]
ErrTimeout     == [type |-> "Error", message |-> <<"timeout">>]
ErrApiInvalid  == [type |-> "Error",
                   message |-> <<"Gemini API error: ", "400", "invalid argument">>]
ErrNoResponse  == [type |-> "Error", message |-> <<"No valid response from Gemini">>]
ErrBadJson     == [type |-> "SyntaxError", message |-> <<"Unexpected token">>]

AttemptErrors == {ErrFetchFailed, ErrRateLimit, ErrTimeout,
                  ErrApiInvalid, ErrNoResponse, ErrBadJson}

\* the errors the attempts of the model end with
InjectedErrors == {ErrFetchFailed, ErrRateLimit, ErrNoResponse}

Null == [type |-> "null", message |-> <<>>]

isRetryableError(error) ==
  \/ error.type = "TypeError" /\ error.message = <<"fetch failed">>
  \/ includes(error.message, "rate limit")
  \/ includes(error.message, "quota")
  \/ includes(error.message, "429")
  \/ includes(error.message, "timeout")
  \/ includes(error.message, "socket hang up")
  \/ includes(error.message, "ECONNRESET")
  \/ includes(error.message, "ETIMEDOUT")
  \/ includes(error.message, "network error")

\* the error callLLMWithBatch throws once it gives up
detailedError(error, retryCount) ==
  [type |-> "Error",
   message |-> <<"LLM batch processing failed: ">> \o error.message,
   retryCount |-> retryCount,
   isRetryableError |-> isRetryableError(error),
   cause |-> error]

NoApiKeyError ==
  [type |-> "Error",
   message |-> <<"GEMINI_API_KEY is not set in environment variables.">>]

\* the wait before the retry numbered retryCount (1, 2)
delayMs(retryCount) == 1000 * Pow2(retryCount - 1)

\* mutant: every error is retried while retries are left
retriesAnyError(error, retryCount) == retryCount < maxRetries

\* the error of an attempt is retried
retries(error, retryCount) == isRetryableError(error) /\ retryCount < maxRetries

(***************************************************************************)
(* ExtractedData values.                                                   *)
(***************************************************************************)
EmptyResult == [phone_numbers |-> <<>>, social_media_links |-> <<>>, addresses |-> <<>>]

\* what attempt number `attempt` of the inference call returns for site k
DataOf(k, attempt) ==
  [phone_numbers |-> <<[site |-> k, attempt |-> attempt]>>,
   social_media_links |-> <<>>, addresses |-> <<>>]

\* the record callLLMWithBatch returns: site name -> ExtractedData
ResultsOf(keys, attempt) == [k \in keys |-> DataOf(k, attempt)]

\* the key sets the inference service answers with, for the batch of flight f:
\* every site of the batch, all but the first, none, and every site of the
\* batch plus the site of the first request waiting in the queue
ResponseKeys(f, q) ==
  LET all == SiteNamesOf(f.currentBatch) IN
  {all, all \ {f.currentBatch[1].siteName}, {}}
    \cup (IF Len(q) > 0 THEN {all \cup {q[1].siteName}} ELSE {})

(***************************************************************************)
(* processBatch, lines 68-78: the guard and the taking of the batch.       *)
(***************************************************************************)
processBatchReturnsEarly(p, q) == p \/ Len(q) = 0

\* mutant: the batch is copied and the queue is not emptied
queueKept(q) == q

\* this.queue after the batch was taken
queueAfterTake(q) == <<>>

NewFlight(q, byDrain) ==
  [currentBatch |-> q, retryCount |-> 0, pc |-> "fetch", delayMs |-> 0, fetches |-> IF apiKey THEN 1 ELSE 0, drain |-> byDrain]

\* mutant: processBatch does not set the processing flag
processBatchNoFlag(q, p, fl, cnt, byDrain) ==
  IF processBatchReturnsEarly(p, q)
  THEN [queue |-> q, processing |-> p, flights |-> fl, flushCount |-> cnt,
        started |-> FALSE]
  ELSE [queue |-> queueAfterTake(q), processing |-> p,
        flights |-> fl \cup {NewFlight(q, byDrain)}, flushCount |-> cnt + 1,
        started |-> TRUE]

\* a call of processBatch() in the state (q, p, fl, cnt), up to its first await
processBatch(q, p, fl, cnt, byDrain) ==
  IF processBatchReturnsEarly(p, q)
  THEN [queue |-> q, processing |-> p, flights |-> fl, flushCount |-> cnt,
        started |-> FALSE]
  ELSE [queue |-> queueAfterTake(q), processing |-> TRUE,
        flights |-> fl \cup {NewFlight(q, byDrain)}, flushCount |-> cnt + 1,
        started |-> TRUE]

\* mutant: the finally block starts the next flush for any waiting request
finallyRestartsOnAny(q) == Len(q) > 0

\* the finally block of processBatch, lines 121-128
finallyRestarts(q) == Len(q) >= batchSize

Finally(q, fl, cnt) ==
  IF finallyRestarts(q)
  THEN processBatch(q, FALSE, fl, cnt, FALSE)
  ELSE [queue |-> q, processing |-> FALSE, flights |-> fl, flushCount |-> cnt,
        started |-> FALSE]

(***************************************************************************)
(* The settling loops of processBatch.  A state of a loop is the resolver  *)
(* map and the log of the resolve/reject calls made so far.                *)
(***************************************************************************)
Min(S) == CHOOSE x \in S : \A y \in S : x <= y

\* lines 84-95: for (const siteName of Object.keys(results))
RECURSIVE ResolvePresent(_, _, _, _)
ResolvePresent(keys, results, resolvers, log) ==
  IF keys = {} THEN [resolvers |-> resolvers, log |-> log]
  ELSE LET k == Min(keys) IN
       IF k \in DOMAIN resolvers
       THEN ResolvePresent(keys \ {k}, results, MapDelete(resolvers, k),
              Append(log, [req |-> resolvers[k], state |-> "fulfilled",
                           value |-> results[k]]))
       ELSE ResolvePresent(keys \ {k}, results, resolvers, log)

\* lines 98-111: for (const input of currentBatch) if (!results[input.siteName])
RECURSIVE ResolveMissing(_, _, _, _)
ResolveMissing(batch, results, resolvers, log) ==
  IF batch = <<>> THEN [resolvers |-> resolvers, log |-> log]
  ELSE LET k == Head(batch).siteName IN
       IF k \notin DOMAIN results /\ k \in DOMAIN resolvers
       THEN ResolveMissing(Tail(batch), results, MapDelete(resolvers, k),
              Append(log, [req |-> resolvers[k], state |-> "fulfilled",
                           value |-> EmptyResult]))
       ELSE ResolveMissing(Tail(batch), results, resolvers, log)

\* lines 83-111: the try block after callLLMWithBatch returned results
ResolveBatch(batch, results, resolvers) ==
  LET a == ResolvePresent(DOMAIN results, results, resolvers, <<>>)
  IN  ResolveMissing(batch, results, a.resolvers, a.log)

\* lines 112-120: the catch block
RECURSIVE RejectBatch(_, _, _, _)
RejectBatch(batch, error, resolvers, log) ==
  IF batch = <<>> THEN [resolvers |-> resolvers, log |-> log]
  ELSE LET k == Head(batch).siteName IN
       IF k \in DOMAIN resolvers
       THEN RejectBatch(Tail(batch), error, MapDelete(resolvers, k),
              Append(log, [req |-> resolvers[k], state |-> "rejected",
                           value |-> error]))
       ELSE RejectBatch(Tail(batch), error, resolvers, log)

SettledBy(log) == {log[i].req : i \in DOMAIN log}

(***************************************************************************)
(* The batch queue: initial state and operations.                          *)
(***************************************************************************)
InitQueue ==
  /\ apiKey \in BOOLEAN
  /\ queue = <<>>
  /\ processing = FALSE
  /\ pendingResolvers = EmptyMap
  /\ timers = 0
  /\ flights = {}
  /\ awaiting = {}
  /\ nEnq = 0
  /\ nDrain = 0
  /\ flushCount = 0
  /\ lateEnqueue = FALSE
  /\ sent = EmptyMap
  /\ ev = [op |-> "init", started |-> FALSE]

\* the batch counts of the requests once processBatch was called with the
\* queue q: the requests of q were taken into one more batch if it started
sentAfter(counts0, q, started) ==
  IF started
  THEN [r \in DOMAIN counts0 |-> IF r \in ReqsOf(q) THEN counts0[r] + 1 ELSE counts0[r]]
  ELSE counts0

\* mutant: the timer is armed while a flush is running instead
armsTimerWhenBusy(p, q) == p /\ Len(q) > 0

\* queueItem arms the one-second timer, lines 49-56
armsTimer(p, q) == ~p /\ Len(q) > 0

\* queueItem(input), lines 36-58, for input.siteName = s: what it does to
\* the batch processor
queueItemCall(s) ==
  LET req == nEnq + 1
      q1  == Append(queue, [siteName |-> s, req |-> req])
      r   == IF Len(q1) >= batchSize
             THEN processBatch(q1, processing, flights, flushCount, FALSE)
             ELSE [queue |-> q1, processing |-> processing, flights |-> flights,
                   flushCount |-> flushCount, started |-> FALSE]
      arm == Len(q1) < batchSize /\ armsTimer(processing, q1)
  IN  /\ nEnq' = req
      /\ pendingResolvers' = MapSet(pendingResolvers, s, req)
      /\ awaiting' = awaiting \cup {req}
      /\ queue' = r.queue
      /\ processing' = r.processing
      /\ flights' = r.flights
      /\ flushCount' = r.flushCount
      /\ timers' = IF arm THEN timers + 1 ELSE timers
      /\ ev' = [op |-> "queueItem", started |-> r.started, req |-> req,
                siteName |-> s, armed |-> arm, busy |-> processing]
      /\ lateEnqueue' = (lateEnqueue \/ flushCount > 0)
      /\ sent' = sentAfter(MapSet(sent, req, 0), q1, r.started)
      /\ UNCHANGED <<apiKey, nDrain>>

\* queueItem called by a caller the model does not follow
queueItem(s) == queueItemCall(s) /\ UNCHANGED <<chainVars, restVars>>

\* the timer callback runs processBatch, lines 52-54
timerFlushes(p, q) == Len(q) > 0 /\ ~p

\* a timer armed by queueItem fires, lines 51-55
TimerFires ==
  /\ timers > 0
  /\ LET r == IF timerFlushes(processing, queue)
               THEN processBatch(queue, processing, flights, flushCount, FALSE)
               ELSE [queue |-> queue, processing |-> processing,
                     flights |-> flights, flushCount |-> flushCount,
                     started |-> FALSE]
     IN /\ timers' = timers - 1
        /\ queue' = r.queue
        /\ processing' = r.processing
        /\ flights' = r.flights
        /\ flushCount' = r.flushCount
        /\ ev' = [op |-> "timer", started |-> r.started]
        /\ sent' = sentAfter(sent, queue, r.started)
  /\ UNCHANGED <<apiKey, pendingResolvers, awaiting, nEnq, nDrain, lateEnqueue,
                 chainVars, restVars>>

\* processRemainingItems flushes, line 62
drainFlushes(p, q) == Len(q) > 0 /\ ~p

\* processRemainingItems(), lines 61-65: where it does not flush it returns
\* at once; otherwise it returns when the flush it started has ended
processRemainingItems ==
  /\ nDrain' = nDrain + 1
  /\ LET r == IF drainFlushes(processing, queue)
               THEN processBatch(queue, processing, flights, flushCount, TRUE)
               ELSE [queue |-> queue, processing |-> processing,
                     flights |-> flights, flushCount |-> flushCount,
                     started |-> FALSE]
     IN /\ queue' = r.queue
        /\ processing' = r.processing
        /\ flights' = r.flights
        /\ flushCount' = r.flushCount
        /\ ev' = [op |-> "drain", started |-> r.started,
                  returned |-> ~r.started, snapshot |-> queue,
                  busy |-> processing]
        /\ sent' = sentAfter(sent, queue, r.started)
  /\ UNCHANGED <<apiKey, pendingResolvers, timers, awaiting, nEnq, lateEnqueue,
                 chainVars, restVars>>

\* processBatch after callLLMWithBatch ended: the settling loops and finally
EndFlight(f, ok, results, error) ==
  LET s   == IF ok THEN ResolveBatch(f.currentBatch, results, pendingResolvers)
             ELSE RejectBatch(f.currentBatch, error, pendingResolvers, <<>>)
      fin == Finally(queue, flights \ {f}, flushCount)
  IN  /\ pendingResolvers' = s.resolvers
      /\ awaiting' = awaiting \ SettledBy(s.log)
      /\ queue' = fin.queue
      /\ processing' = fin.processing
      /\ flights' = fin.flights
      /\ flushCount' = fin.flushCount
      /\ ev' = [op |-> "flushDone", started |-> fin.started,
                batch |-> f.currentBatch, ok |-> ok,
                keys |-> IF ok THEN DOMAIN results ELSE {},
                error |-> error, retryCount |-> f.retryCount,
                fetches |-> f.fetches, log |-> s.log,
                drain |-> f.drain]
      /\ sent' = sentAfter(sent, queue, fin.started)
      /\ UNCHANGED <<apiKey, timers, nEnq, nDrain, lateEnqueue, chainVars, restVars>>

\* callLLMWithBatch throws before its first fetch, lines 167-170
ApiKeyMissing(f) ==
  /\ ~apiKey
  /\ f.pc = "fetch"
  /\ EndFlight(f, FALSE, EmptyMap, NoApiKeyError)

\* an attempt of callLLMWithBatch returns results, lines 190-252
AttemptSucceeds(f, keys) ==
  /\ apiKey
  /\ f.pc = "fetch"
  /\ EndFlight(f, TRUE, ResultsOf(keys, f.retryCount), Null)

\* an attempt of callLLMWithBatch throws, lines 254-298
AttemptFails(f, error) ==
  /\ apiKey
  /\ f.pc = "fetch"
  /\ IF retries(error, f.retryCount)
     THEN /\ flights' = (flights \ {f}) \cup
                 {[f EXCEPT !.retryCount = f.retryCount + 1, !.pc = "backoff",
                            !.delayMs = delayMs(f.retryCount + 1)]}
          /\ ev' = [op |-> "attemptFailed", started |-> FALSE, error |-> error]
          /\ UNCHANGED <<apiKey, queue, processing, pendingResolvers, timers,
                         awaiting, nEnq, nDrain, flushCount, lateEnqueue, sent,
                         chainVars, restVars>>
     ELSE EndFlight(f, FALSE, EmptyMap, detailedError(error, f.retryCount))

\* the backoff wait of line 264 is over: the loop makes the next attempt
BackoffElapses(f) ==
  /\ f.pc = "backoff"
  /\ flights' = (flights \ {f}) \cup
        {[f EXCEPT !.pc = "fetch", !.fetches = f.fetches + 1]}
  /\ ev' = [op |-> "retry", started |-> FALSE]
  /\ UNCHANGED <<apiKey, queue, processing, pendingResolvers, timers,
                 awaiting, nEnq, nDrain, flushCount, lateEnqueue, sent,
                 chainVars, restVars>>

\* the steps the event loop takes on its own
Attempt ==
  \E f \in flights :
     \/ \E keys \in ResponseKeys(f, queue) : AttemptSucceeds(f, keys)
     \/ \E error \in InjectedErrors : AttemptFails(f, error)

NoKey == \E f \in flights : ApiKeyMissing(f)

Backoff == \E f \in flights : BackoffElapses(f)

Drain == nDrain < MaxDrain /\ processRemainingItems

\* callers pass site names of Sites, any of them more than once
Enqueue == nEnq < MaxEnqueue /\ \E s \in Sites : queueItem(s)

\* a burst of callers, each with a site name of its own
EnqueueBurst == nEnq < MaxBurst /\ queueItem(nEnq + 1)

\* one caller, then callers that arrive while a flush is in flight, each with
\* a site name of its own (the pool of runApp has up to 30 workers)
EnqueueLate == nEnq < MaxLate /\ (nEnq = 0 \/ flights # {}) /\ queueItem(nEnq + 1)

\* the first batchSize callers of the burst arrive within the flush delay:
\* no timer is due before they are in
DueTimer == nEnq >= batchSize /\ TimerFires

(***************************************************************************)
(* The acquisition chain.  Error messages are sequences of fragments;      *)
(* toLowerCase works fragment by fragment.                                 *)
(***************************************************************************)
Urls == {"https://a.example", "http://b.example", "https://www.c.example"}

\* url.replace(/^http:\/\//i, 'https://')
toHttps(url) ==
  CASE url = "http://a.example" -> "https://a.example"
    [] url = "http://b.example" -> "https://b.example"
    [] url = "http://www.c.example" -> "https://www.c.example"
    [] OTHER -> url

\* url.replace(/^https:\/\//i, 'http://')
toHttp(url) ==
  CASE url = "https://a.example" -> "http://a.example"
    [] url = "https://b.example" -> "http://b.example"
    [] url = "https://www.c.example" -> "http://www.c.example"
    [] OTHER -> url

toLowerCase(fragment) ==
  CASE fragment = "All HTTPS " -> "all https "
    [] fragment = "All HTTP " -> "all http "
    [] fragment = "External HTTPS download failed" -> "external https download failed"
    [] fragment = "External HTTP download failed" -> "external http download failed"
    [] fragment = "Timeout" -> "timeout"
    [] fragment = "Response code " -> "response code "
    [] fragment = "Cannot read properties of undefined" -> "cannot read properties of undefined"
    [] OTHER -> fragment

lowered(message) == [i \in DOMAIN message |-> toLowerCase(message[i])]

\* LocalHttpsStrategy.fetchHtml, line 111
HttpsFetchError(url) ==
  [type |-> "Error",
   message |-> <<"All HTTPS ", "fetch attempts failed", " for ", toHttps(url)>>]

\* LocalHttpStrategy.fetchHtml, line 106
HttpFetchError(url) ==
  [type |-> "Error",
   message |-> <<"All HTTP ", "fetch attempts failed", " for ", toHttp(url)>>]

\* how a request of got ends: a response, or an error with its name, its
\* code and the status code of the response (0 when there is no response)
GotOk == [name |-> "Response", code |-> "", statusCode |-> 200]
GotTimeout == [name |-> "TimeoutError", code |-> "ETIMEDOUT", statusCode |-> 0]
GotNotFound == [name |-> "RequestError", code |-> "ENOTFOUND", statusCode |-> 0]
GotRefused == [name |-> "RequestError", code |-> "ECONNREFUSED", statusCode |-> 0]
GotForbidden == [name |-> "HTTPError", code |-> "ERR_NON_2XX_3XX_RESPONSE", statusCode |-> 403]
GotMissing == [name |-> "HTTPError", code |-> "ERR_NON_2XX_3XX_RESPONSE", statusCode |-> 404]
GotServerError == [name |-> "HTTPError", code |-> "ERR_NON_2XX_3XX_RESPONSE", statusCode |-> 500]

GotErrors == {GotTimeout, GotNotFound, GotRefused, GotForbidden, GotMissing, GotServerError}

\* LocalHttpsStrategy.isRetryableError, lines 117-124 of its file
LocalHttpsIsRetryableError(error) ==
  \/ error.code = "EPROTO"
  \/ error.name = "RequestError"
  \/ error.name = "TimeoutError"
  \/ error.code = "ENOTFOUND"
  \/ error.code = "ECONNREFUSED"
  \/ error.statusCode = 403

\* mutant: every error of the first request is retried
LocalHttpRetriesAll(error) == TRUE

\* LocalHttpStrategy.isRetryableError, part_005 lines 112-118
LocalHttpIsRetryableError(error) ==
  \/ error.name = "RequestError"
  \/ error.name = "TimeoutError"
  \/ error.code = "ENOTFOUND"
  \/ error.code = "ECONNREFUSED"
  \/ error.statusCode = 403

\* an exception of the markup conversion, outside fetchHtml
ConversionError ==
  [type |-> "TypeError", message |-> <<"Cannot read properties of undefined">>]

\* ExternalHttpsStrategy.downloadUsingExternalService, line 65 of its file
ExternalHttpsError(inner) ==
  [type |-> "Error",
   message |-> <<"External HTTPS download failed", ": ">> \o inner]

\* ExternalHttpStrategy.downloadUsingExternalService
ExternalHttpError(inner) ==
  [type |-> "Error",
   message |-> <<"External HTTP download failed", ": ">> \o inner]

ExternalInner == {<<"Response code ", "404">>, <<"Timeout", " awaiting 'request'">>}

\* the errors strategy.download(url) can throw
DownloadErrors(strategy, url) ==
  CASE strategy = "Local HTTPS" -> {HttpsFetchError(url), ConversionError}
    [] strategy = "Local HTTP" -> {HttpFetchError(url), ConversionError}
    [] strategy = "External HTTPS" -> {ExternalHttpsError(i) : i \in ExternalInner}
    [] strategy = "External HTTP" -> {ExternalHttpError(i) : i \in ExternalInner}

\* no request failed: the download threw after its fetch, or is not a
\* download of a direct strategy
NoCause == [name |-> "none", code |-> "", statusCode |-> 0]

\* the errors of the first request that the chain is followed through
DownloadCauses == {GotTimeout, GotForbidden, GotMissing}

\* how strategy.download(url) can throw: the error it throws and the error
\* of the first request of fetchHtml behind it
DownloadFailures(strategy, url) ==
  {[error |-> e, cause |-> c] :
     e \in DownloadErrors(strategy, url) \ {ConversionError},
     c \in IF strategy \in {"Local HTTPS", "Local HTTP"} THEN DownloadCauses ELSE {NoCause}}
  \cup {[error |-> e, cause |-> NoCause] :
          e \in DownloadErrors(strategy, url) \cap {ConversionError}}

\* sizes in bytes of the content a download returns
ResultSizes == {1200, 1499, 1500}

\* the link lists a local download extracts
LinkLists ==
  {<<>>, <<"https://a.example/contact">>, <<"https://a.example/blog">>}

\* the DownloadResult values strategy.download(url) can resolve with
DownloadResults(strategy, url) ==
  CASE strategy = "Local HTTPS" ->
         {[effectiveUrl |-> toHttps(url), size |-> n, links |-> l,
           isMarkdown |-> TRUE, content |-> strategy] : n \in ResultSizes, l \in LinkLists}
    [] strategy = "Local HTTP" ->
         {[effectiveUrl |-> toHttp(url), size |-> n, links |-> l,
           isMarkdown |-> TRUE, content |-> strategy] : n \in ResultSizes, l \in LinkLists}
    [] strategy = "External HTTPS" ->
         {[effectiveUrl |-> toHttps(url), size |-> n, links |-> <<>>,
           isMarkdown |-> TRUE, content |-> strategy] : n \in ResultSizes}
    [] strategy = "External HTTP" ->
         {[effectiveUrl |-> toHttp(url), size |-> n, links |-> <<>>,
           isMarkdown |-> TRUE, content |-> strategy] : n \in ResultSizes}

\* isApplicable of each strategy; previousError is Null when undefined
LocalHttpsIsApplicable(url, previousError) == TRUE

LocalHttpIsApplicable(url, previousError) ==
  /\ previousError # Null
  /\ LET errorMsg == lowered(previousError.message) IN
     \/ includes(errorMsg, "fetch attempts failed")
     \/ includes(errorMsg, "enotfound")
     \/ includes(errorMsg, "econnrefused")
     \/ includes(errorMsg, "timeout")
     \/ includes(errorMsg, "403")

\* mutant: the remote strategy is tried after any error
ExternalHttpsAfterAnyError(url, previousError) == previousError # Null

ExternalHttpsIsApplicable(url, previousError) ==
  /\ previousError # Null
  /\ LET errorMsg == lowered(previousError.message) IN
     includes(errorMsg, "fetch attempts failed")

ExternalHttpIsApplicable(url, previousError) ==
  /\ previousError # Null
  /\ LET errorMsg == lowered(previousError.message) IN
     includes(errorMsg, "external https download failed")

\* strategy.isApplicable(url, previousError): the method of the strategy's class
isApplicable(strategy, url, previousError) ==
  CASE strategy = "Local HTTPS" -> LocalHttpsIsApplicable(url, previousError)
    [] strategy = "Local HTTP" -> LocalHttpIsApplicable(url, previousError)
    [] strategy = "External HTTPS" -> ExternalHttpsIsApplicable(url, previousError)
    [] strategy = "External HTTP" -> ExternalHttpIsApplicable(url, previousError)

\* SiteProcessor.constructor: the chain the orchestrator builds
strategies == <<"Local HTTPS", "Local HTTP", "External HTTPS">>

AllFailedError == [type |-> "Error", message |-> <<"All download strategies failed">>]

InitChain ==
  /\ chainStrategies = strategies
  /\ chainPc = "idle"
  /\ chainUrl = ""
  /\ chainIdx = 0
  /\ lastError = Null
  /\ invoked = <<>>
  /\ chainOut = [kind |-> "none"]

\* execute(url) is called: the for loop is at the first strategy
ExecuteCall(url) ==
  /\ chainPc \in {"idle", "returned", "thrown"}
  /\ chainPc' = "loop"
  /\ chainUrl' = url
  /\ chainIdx' = 1
  /\ lastError' = Null
  /\ invoked' = <<>>
  /\ chainOut' = [kind |-> "none"]
  /\ UNCHANGED chainStrategies

\* execute called by a caller the model does not follow
Execute(url) == ExecuteCall(url) /\ UNCHANGED <<queueVars, restVars>>

\* mutant: the loop tries every strategy
skipsNone(strategy, url, previousError) == FALSE

\* line 88: the loop passes over the strategy
skips(strategy, url, previousError) == ~isApplicable(strategy, url, previousError)

\* lines 87-93: one iteration of the loop up to the await of download
LoopStep ==
  /\ chainPc = "loop"
  /\ chainIdx <= Len(chainStrategies)
  /\ IF skips(chainStrategies[chainIdx], chainUrl, lastError)
     THEN /\ chainIdx' = chainIdx + 1
          /\ UNCHANGED <<chainPc, invoked>>
     ELSE /\ chainPc' = "download"
          /\ invoked' = Append(invoked, [strategy |-> chainStrategies[chainIdx],
                                         previousError |-> lastError,
                                         outcome |-> "pending",
                                         error |-> Null,
                                         cause |-> NoCause])
          /\ UNCHANGED chainIdx
  /\ UNCHANGED <<chainUrl, lastError, chainOut, chainStrategies, queueVars, restVars>>

\* mutant: after a download resolved the loop goes on to the next strategy
DownloadSucceedsGoesOn(result) ==
  /\ chainPc = "download"
  /\ chainPc' = "loop"
  /\ invoked' = [invoked EXCEPT ![Len(invoked)].outcome = "ok"]
  /\ chainIdx' = chainIdx + 1
  /\ UNCHANGED <<chainUrl, chainOut, lastError, chainStrategies, queueVars, restVars>>

\* lines 93-106: download resolved, execute returns
DownloadSucceeds(result) ==
  /\ chainPc = "download"
  /\ chainPc' = "returned"
  /\ invoked' = [invoked EXCEPT ![Len(invoked)].outcome = "ok"]
  /\ chainOut' = [kind |-> "result", result |-> result,
                  status |-> [success |-> TRUE,
                              strategy |-> chainStrategies[chainIdx]]]
  /\ UNCHANGED <<chainUrl, chainIdx, lastError, chainStrategies, queueVars, restVars>>

\* lines 107-121: download threw, the loop goes on
DownloadFails(error, cause) ==
  /\ chainPc = "download"
  /\ chainPc' = "loop"
  /\ lastError' = error
  /\ invoked' = [invoked EXCEPT ![Len(invoked)].outcome = "failed",
                                ![Len(invoked)].error = error,
                                ![Len(invoked)].cause = cause]
  /\ chainIdx' = chainIdx + 1
  /\ UNCHANGED <<chainUrl, chainOut, chainStrategies, queueVars, restVars>>

\* mutant: the loop is over and the generic error is thrown whatever failed
ExhaustedGeneric ==
  /\ chainPc = "loop"
  /\ chainIdx > Len(chainStrategies)
  /\ chainPc' = "thrown"
  /\ chainOut' = [kind |-> "error", error |-> AllFailedError]
  /\ UNCHANGED <<chainUrl, chainIdx, lastError, invoked, chainStrategies, queueVars, restVars>>

\* line 125: the loop is over
Exhausted ==
  /\ chainPc = "loop"
  /\ chainIdx > Len(chainStrategies)
  /\ chainPc' = "thrown"
  /\ chainOut' = [kind |-> "error",
                  error |-> IF lastError # Null THEN lastError ELSE AllFailedError]
  /\ UNCHANGED <<chainUrl, chainIdx, lastError, invoked, chainStrategies, queueVars, restVars>>

DownloadThrows ==
  /\ chainPc = "download"
  /\ \E f \in DownloadFailures(chainStrategies[chainIdx], chainUrl) :
        DownloadFails(f.error, f.cause)

DownloadReturns ==
  /\ chainPc = "download"
  /\ \E result \in DownloadResults(chainStrategies[chainIdx], chainUrl) :
        DownloadSucceeds(result)

ExecuteAny == \E url \in Urls : Execute(url)

\* the chains built with addStrategy: the orchestrator's, an empty one, and
\* one holding only a strategy that needs a previous error
Chains == {strategies, <<>>, <<"Local HTTP">>}

\* new DownloadStrategyChain().addStrategy(...): another chain is executed
NewChain ==
  /\ chainPc \in {"idle", "returned", "thrown"}
  /\ \E c \in Chains : chainStrategies' = c
  /\ chainPc' = "idle"
  /\ chainUrl' = ""
  /\ chainIdx' = 0
  /\ lastError' = Null
  /\ invoked' = <<>>
  /\ chainOut' = [kind |-> "none"]
  /\ UNCHANGED <<queueVars, restVars>>

(***************************************************************************)
(* ContactFinder.findContactLinks.  A link is the sequence of its          *)
(* characters.                                                             *)
(***************************************************************************)
CONTACT_KEYWORDS ==
  <<<<"c", "o", "n", "t", "a", "c", "t">>,
    <<"i", "m", "p", "r", "i", "n", "t">>,
    <<"i", "m", "p", "r", "e", "s", "s", "u", "m">>,
    <<"a", "b", "o", "u", "t">>>>

\* String.prototype.toLowerCase, character by character
lowerChar(c) ==
  CASE c = "A" -> "a"
    [] c = "B" -> "b"
    [] c = "C" -> "c"
    [] c = "I" -> "i"
    [] c = "N" -> "n"
    [] c = "O" -> "o"
    [] c = "T" -> "t"
    [] c = "U" -> "u"
    [] OTHER -> c

toLowerCaseStr(str) == [i \in DOMAIN str |-> lowerChar(str[i])]

\* String.prototype.includes
includesStr(str, sub) ==
  \E i \in 0..(Len(str) - Len(sub)) : SubSeq(str, i + 1, i + Len(sub)) = sub

\* Array.prototype.some over the keywords, line 39
someKeyword(link) ==
  \E k \in DOMAIN CONTACT_KEYWORDS :
    includesStr(toLowerCaseStr(link), CONTACT_KEYWORDS[k])

\* mutant: the main page url is not excluded
keepsLinkWithMain(link, mainPageUrl) == someKeyword(link)

\* the predicate of the filter, lines 38-42
keepsLink(link, mainPageUrl) == someKeyword(link) /\ link # mainPageUrl

\* Array.prototype.filter with the predicate of lines 38-42
RECURSIVE filterLinks(_, _)
filterLinks(links, mainPageUrl) ==
  IF links = <<>> THEN <<>>
  ELSE (IF keepsLink(Head(links), mainPageUrl) THEN <<Head(links)>> ELSE <<>>)
         \o filterLinks(Tail(links), mainPageUrl)

findContactLinks(links, mainPageUrl) ==
  IF Len(links) = 0 THEN <<>> ELSE filterLinks(links, mainPageUrl)

\* the links of the pages
PageLinks ==
  {<<"a", "/", "c", "o", "n", "t", "a", "c", "t">>,
   <<"a", "/">>,
   <<"a", "/", "A", "B", "O", "U", "T">>,
   <<"a", "/", "I", "m", "p", "r", "e", "s", "s", "u", "m">>,
   <<"a", "/", "i", "m", "p", "r", "i", "n", "t">>,
   <<"a", "/", "b", "l", "o", "g">>,
   <<"a", "/", "a", "b", "o", "u">>,
   <<"a", "/", "c", "o", "n", "t", "/", "a", "c", "t">>,
   <<"a", "/", "C", "O", "N", "T", "A", "C", "T", "-", "u", "s">>,
   <<"a", "/", "a", "b", "o", "u", "t">>,
   <<"a", "/", "A", "b", "o", "u", "t">>}

\* the urls of the main page
MainPageUrls == {<<"a", "/">>, <<"a", "/", "a", "b", "o", "u", "t">>}

LinkArrays == UNION {[1..n -> PageLinks] : n \in 0..MaxLinks}

InitContact ==
  /\ cfPc = "idle"
  /\ cfLinks = <<>>
  /\ cfMain = <<"a", "/">>
  /\ cfOut = findContactLinks(<<>>, <<"a", "/">>)

\* one call of findContactLinks
FindContactLinksCall ==
  /\ cfPc = "idle"
  /\ cfPc' = "returned"
  /\ \E links \in LinkArrays, mainPageUrl \in MainPageUrls :
        /\ cfLinks' = links
        /\ cfMain' = mainPageUrl
        /\ cfOut' = findContactLinks(links, mainPageUrl)
  /\ UNCHANGED <<queueVars, chainVars, siteVars, poolVars, fetchVars, unitVars, pageVars>>

(***************************************************************************)
(* SiteProcessor.processSite: one call, followed from await to await.      *)
(***************************************************************************)
\* the characters of a string
chars(str) ==
  CASE str = "https://a.example/contact" ->
         <<"h", "t", "t", "p", "s", ":", "/", "/", "a", ".", "e", "x", "a", "m", "p", "l", "e", "/", "c", "o", "n", "t", "a", "c", "t">>
    [] str = "https://a.example/blog" ->
         <<"h", "t", "t", "p", "s", ":", "/", "/", "a", ".", "e", "x", "a", "m", "p", "l", "e", "/", "b", "l", "o", "g">>
    [] str = "https://a.example" ->
         <<"h", "t", "t", "p", "s", ":", "/", "/", "a", ".", "e", "x", "a", "m", "p", "l", "e">>
    [] str = "http://a.example" ->
         <<"h", "t", "t", "p", ":", "/", "/", "a", ".", "e", "x", "a", "m", "p", "l", "e">>
    [] str = "https://b.example" ->
         <<"h", "t", "t", "p", "s", ":", "/", "/", "b", ".", "e", "x", "a", "m", "p", "l", "e">>
    [] str = "http://b.example" ->
         <<"h", "t", "t", "p", ":", "/", "/", "b", ".", "e", "x", "a", "m", "p", "l", "e">>
    [] str = "https://www.c.example" ->
         <<"h", "t", "t", "p", "s", ":", "/", "/", "w", "w", "w", ".", "c", ".", "e", "x", "a", "m", "p", "l", "e">>
    [] str = "http://www.c.example" ->
         <<"h", "t", "t", "p", ":", "/", "/", "w", "w", "w", ".", "c", ".", "e", "x", "a", "m", "p", "l", "e">>

\* the urls processSite is called with
SiteInputs == {"https://a.example", "b.example"}

\* the number that stands for the site name originalUrl in the batch processor
siteNameOf(originalUrl) == IF originalUrl = "https://a.example" THEN 1 ELSE 2

\* ensureUrlScheme, lines 392-399
ensureUrlScheme(url) == IF url = "b.example" THEN "https://b.example" ELSE url

\* mutant: the size 1500 counts as small too
initialIsSpaInclusive(mainSize) == mainSize <= 1500

\* line 119
initialIsSpa(mainSize) == mainSize < 1500

\* the urls that contain jina.ai
JinaUrls == {"https://r.jina.ai/https://a.example"}

\* lines 151-152
downloadMethodOf(links, effectiveUrl) ==
  IF Len(links) > 0 THEN "local"
  ELSE IF effectiveUrl \in JinaUrls THEN "external" ELSE "search"

\* HeadlessBrowserStrategy.download(url): what it resolves with
HeadlessResults(url) ==
  {[effectiveUrl |-> url, size |-> n, links |-> l, isMarkdown |-> TRUE,
    content |-> "Headless Browser"] : n \in {1200, 1500}, l \in LinkLists}

\* HeadlessBrowserStrategy.download(url): what it throws, part_004 line 96
HeadlessError ==
  [type |-> "Error",
   message |-> <<"Failed to process SPA with headless browser: ", "Timeout">>]

\* an error of fsPromises.writeFile
WriteError == [type |-> "Error", message |-> <<"ENOSPC: no space left on device">>]

\* sizes in bytes of the content processContactPages returns
ContactSizes == {0, 800}

IdleSite ==
  [pc |-> "idle", originalUrl |-> "", siteUrl |-> "",
   mainContent |-> "", links |-> <<>>, mainSize |-> 0, effectiveUrl |-> "",
   downloadMethod |-> "local", processContactsAsSpa |-> FALSE,
   downloadSuccess |-> FALSE, rendering |-> "none", located |-> FALSE,
   contactLinks |-> <<>>, contactSize |-> 0, size |-> 0,
   llmProcessing |-> "Not yet started", req |-> 0, raised |-> "none",
   out |-> [kind |-> "none"]]

InitSite == site = IdleSite

\* mutant: stage 4 goes on to the extraction whatever the download did
StageLLMAlways(l) ==
  [l EXCEPT !.size = l.mainSize + l.contactSize,
            !.llmProcessing = "Processing content with LLM...",
            !.pc = "writeTxt"]

\* lines 257-304: stage 4 up to its first await
StageLLM(l) ==
  LET l1 == [l EXCEPT !.size = l.mainSize + l.contactSize] IN
  IF ~l1.downloadSuccess
  THEN [l1 EXCEPT !.llmProcessing = "Skipped (download failed)",
                  !.pc = "writeEmptyJson"]
  ELSE [l1 EXCEPT !.llmProcessing = "Processing content with LLM...",
                  !.pc = "writeTxt"]

\* mutant: stage 4 starts without the await of the contact pages
StageContactsNotAwaited(l) ==
  IF l.downloadMethod = "local" /\ Len(l.links) > 0
  THEN LET contactLinks ==
             findContactLinks([i \in DOMAIN l.links |-> chars(l.links[i])],
                              chars(l.effectiveUrl))
       IN  StageLLM([l EXCEPT !.contactLinks = contactLinks, !.located = TRUE])
  ELSE StageLLM(l)

\* lines 184-242: stage 2 up to its await, or through to stage 4
StageContacts(l) ==
  IF l.downloadMethod = "local" /\ Len(l.links) > 0
  THEN LET contactLinks ==
             findContactLinks([i \in DOMAIN l.links |-> chars(l.links[i])],
                              chars(l.effectiveUrl))
           l1 == [l EXCEPT !.contactLinks = contactLinks, !.located = TRUE]
       IN  IF Len(contactLinks) > 0
           THEN [l1 EXCEPT !.pc = "contactPages"]
           ELSE StageLLM(l1)
  ELSE StageLLM(l)

\* lines 150-164: the end of stage 1 after a download
EndOfDownload(l) ==
  StageContacts([l EXCEPT !.downloadMethod = downloadMethodOf(l.links, l.effectiveUrl),
                          !.size = l.mainSize])

\* lines 59-93: processSite(originalUrl) up to the await of execute
ProcessSite(originalUrl) ==
  /\ site.pc = "idle"
  /\ site' = [IdleSite EXCEPT !.pc = "acquiring",
                              !.originalUrl = originalUrl,
                              !.siteUrl = ensureUrlScheme(originalUrl),
                              !.effectiveUrl = ensureUrlScheme(originalUrl)]
  /\ ExecuteCall(ensureUrlScheme(originalUrl))
  /\ UNCHANGED <<queueVars, contactVars, poolVars, fetchVars, unitVars, pageVars>>

ProcessSiteAny == \E originalUrl \in SiteInputs : ProcessSite(originalUrl)

\* lines 110-135: execute returned
AcquireReturns ==
  /\ site.pc = "acquiring"
  /\ chainPc = "returned"
  /\ LET result == chainOut.result
         l == [site EXCEPT !.downloadSuccess = TRUE,
                           !.mainContent = result.content,
                           !.links = result.links,
                           !.mainSize = result.size,
                           !.effectiveUrl = result.effectiveUrl]
     IN  site' = IF initialIsSpa(l.mainSize)
                 THEN [l EXCEPT !.processContactsAsSpa = TRUE,
                                !.rendering = "called",
                                !.pc = "rendering"]
                 ELSE EndOfDownload(l)
  /\ UNCHANGED <<queueVars, chainVars, contactVars, poolVars, fetchVars, unitVars, pageVars>>

\* lines 165-182: execute threw
AcquireThrows ==
  /\ site.pc = "acquiring"
  /\ chainPc = "thrown"
  /\ site' = StageContacts([site EXCEPT !.downloadSuccess = FALSE,
                                        !.raised = "acquisition",
                                        !.mainContent = "",
                                        !.links = <<>>,
                                        !.mainSize = 0])
  /\ UNCHANGED <<queueVars, chainVars, contactVars, poolVars, fetchVars, unitVars, pageVars>>

\* lines 135-143: the headless download resolved
RenderReturns ==
  /\ site.pc = "rendering"
  /\ \E headlessResult \in HeadlessResults(site.effectiveUrl) :
        site' = EndOfDownload([site EXCEPT !.rendering = "ok",
                                           !.mainContent = headlessResult.content,
                                           !.links = headlessResult.links,
                                           !.mainSize = headlessResult.size,
                                           !.effectiveUrl = headlessResult.effectiveUrl])
  /\ UNCHANGED <<queueVars, chainVars, contactVars, poolVars, fetchVars, unitVars, pageVars>>

\* mutant: a headless download that threw is handled as a failed download
RenderThrowsAsDownloadFailure ==
  /\ site.pc = "rendering"
  /\ site' = StageContacts([site EXCEPT !.rendering = "failed",
                                        !.raised = "rendering",
                                        !.downloadSuccess = FALSE,
                                        !.mainContent = "",
                                        !.links = <<>>,
                                        !.mainSize = 0])
  /\ UNCHANGED <<queueVars, chainVars, contactVars, poolVars, fetchVars, unitVars, pageVars>>

\* lines 144-147: the headless download threw
RenderThrows ==
  /\ site.pc = "rendering"
  /\ site' = EndOfDownload([site EXCEPT !.rendering = "failed",
                                        !.raised = "rendering"])
  /\ UNCHANGED <<queueVars, chainVars, contactVars, poolVars, fetchVars, unitVars, pageVars>>

\* lines 199-220: processContactPages resolved
ContactPagesReturn ==
  /\ site.pc = "contactPages"
  /\ \E n \in ContactSizes : site' = StageLLM([site EXCEPT !.contactSize = n])
  /\ UNCHANGED <<queueVars, chainVars, contactVars, poolVars, fetchVars, unitVars, pageVars>>

\* the records processSite returns; their data field is siteData, which the
\* model keeps in site (size, contactLinks, llmProcessing)

\* mutant: the outer catch classifies as the catch of the LLM stage does
UnexpectedResultAsLLM(l, error) ==
  [kind |-> "returned", success |-> FALSE, error |-> error,
   errorType |-> "llm", extractedData |-> Null]

\* the record the outer catch returns, lines 367-382
UnexpectedResult(l, error) ==
  [kind |-> "returned", success |-> FALSE, error |-> error,
   errorType |-> "unexpected", extractedData |-> Null]

\* the record the catch of the LLM stage returns, lines 346-366
LLMErrorResult(l, error) ==
  [kind |-> "returned", success |-> FALSE, error |-> error,
   errorType |-> "llm", extractedData |-> Null]

\* lines 282-300: the empty record was written, or the write threw
WriteEmptyJson ==
  /\ site.pc = "writeEmptyJson"
  /\ \/ site' = [site EXCEPT !.pc = "returned",
                              !.out = [kind |-> "returned", success |-> TRUE,
                                       error |-> Null,
                                       errorType |-> "download",
                                       extractedData |-> EmptyResult]]
     \/ site' = [site EXCEPT !.pc = "returned",
                              !.raised = "emptyJson",
                              !.out = UnexpectedResult(site, WriteError)]
  /\ UNCHANGED <<queueVars, chainVars, contactVars, poolVars, fetchVars, unitVars, pageVars>>

\* lines 311-314: the text was written and processWithLLM is called
WriteTxtReturns ==
  /\ site.pc = "writeTxt"
  /\ site' = [site EXCEPT !.pc = "extracting", !.req = nEnq + 1]
  /\ queueItemCall(siteNameOf(site.originalUrl))
  /\ UNCHANGED <<chainVars, contactVars, poolVars, fetchVars, unitVars, pageVars>>

\* lines 311, 346-366: the write of the text threw
WriteTxtThrows ==
  /\ site.pc = "writeTxt"
  /\ site' = [site EXCEPT !.pc = "returned",
                          !.raised = "writeTxt",
                          !.llmProcessing = "Error",
                          !.out = LLMErrorResult(site, WriteError)]
  /\ UNCHANGED <<queueVars, chainVars, contactVars, poolVars, fetchVars, unitVars, pageVars>>

\* the settlement of the promise processWithLLM returned, as the flush that
\* just ended made it
Settlement(req) ==
  {ev.log[j] : j \in {k \in DOMAIN ev.log : ev.log[k].req = req}}

\* the continuation of the await of line 314 is due
LLMSettled ==
  /\ site.pc = "extracting"
  /\ ev.op = "flushDone"
  /\ Settlement(site.req) # {}

\* mutant: a rejected promise is left to the outer catch
ExtractionSettlesUnexpected ==
  /\ LLMSettled
  /\ \E st \in Settlement(site.req) :
        site' = IF st.state = "fulfilled"
                THEN [site EXCEPT !.pc = "writeJson",
                                  !.llmProcessing = "Successfully extracted",
                                  !.out = [kind |-> "none", extractedData |-> st.value]]
                ELSE [site EXCEPT !.pc = "returned",
                                  !.raised = "extraction",
                                  !.out = UnexpectedResult(site, st.value)]
  /\ UNCHANGED <<queueVars, chainVars, contactVars, poolVars, fetchVars, unitVars, pageVars>>

\* lines 314-324 and 346-366: the promise was resolved or rejected
ExtractionSettles ==
  /\ LLMSettled
  /\ \E st \in Settlement(site.req) :
        site' = IF st.state = "fulfilled"
                THEN [site EXCEPT !.pc = "writeJson",
                                  !.llmProcessing = "Successfully extracted",
                                  !.out = [kind |-> "none", extractedData |-> st.value]]
                ELSE [site EXCEPT !.pc = "returned",
                                  !.raised = "extraction",
                                  !.llmProcessing = "Error",
                                  !.out = LLMErrorResult(site, st.value)]
  /\ UNCHANGED <<queueVars, chainVars, contactVars, poolVars, fetchVars, unitVars, pageVars>>

\* lines 328-345 and 346-366: the record was written, or the write threw
WriteJson ==
  /\ site.pc = "writeJson"
  /\ \/ site' = [site EXCEPT !.pc = "returned",
                              !.out = [kind |-> "returned", success |-> TRUE,
                                       error |-> Null,
                                       errorType |-> "none",
                                       extractedData |-> site.out.extractedData]]
     \/ site' = [site EXCEPT !.pc = "returned",
                              !.raised = "writeJson",
                              !.llmProcessing = "Error",
                              !.out = LLMErrorResult(site, WriteError)]
  /\ UNCHANGED <<queueVars, chainVars, contactVars, poolVars, fetchVars, unitVars, pageVars>>

\* a step of the batch processor; the continuation of a settled await runs
\* before any timer or network callback
QueueStep == ~LLMSettled /\ (TimerFires \/ Attempt \/ NoKey \/ Backoff)

\* a step of the execute call processSite awaits
ChainStep == LoopStep \/ DownloadReturns \/ DownloadThrows \/ Exhausted

(***************************************************************************)
(* processWithWorkerQueue (part_003, lines 198-444).  Its workers are the  *)
(* chains of processNext calls; the model follows the call of processNext  *)
(* that holds each position of sites.                                      *)
(***************************************************************************)
\* the urls of the input list
PoolUrls == SiteInputs

\* the url at position i of the input lists: the two urls in turn, so that
\* a list of three holds one url twice
siteAt(i) == IF i % 2 = 1 THEN "https://a.example" ELSE "b.example"

\* the input lists; runApp returns before the pool when the list is empty
SiteLists == {[i \in 1..n |-> siteAt(i)] : n \in 1..MaxSites}

\* the values of concurrencyLimit
Limits == 1..MaxLimit

\* lines 267-273: the site name the results are stored under
hostnameOf(siteUrl) == IF siteUrl = "b.example" THEN "b.example" ELSE "a.example"

HostNames == {hostnameOf(u) : u \in PoolUrls}

\* data an extraction returned
ExtractedSome ==
  [phone_numbers |-> <<"+40 21 000 0000">>, social_media_links |-> <<>>, addresses |-> <<>>]

\* an error carried by a failed result, and one processSite rejects with
SiteError == [type |-> "Error", message |-> <<"site failed">>]

\* the records processSite resolves with (siteProcessor.ts lines 295-300,
\* 338-345, 360-365, 376-381)
SiteResults ==
  { [success |-> TRUE, errorType |-> "none", extractedData |-> ExtractedSome, error |-> Null],
    [success |-> TRUE, errorType |-> "download", extractedData |-> EmptyResult, error |-> Null],
    [success |-> FALSE, errorType |-> "llm", extractedData |-> Null, error |-> SiteError],
    [success |-> FALSE, errorType |-> "unexpected", extractedData |-> Null, error |-> SiteError] }

\* lines 213-217
ZeroCounts ==
  [successCount |-> 0, errorCount |-> 0, downloadErrorCount |-> 0,
   llmErrorCount |-> 0, unexpectedErrorCount |-> 0]

\* part_003:463-467 and siteProcessor.ts:38-52: the one SiteProcessor runApp
\* makes; its fields are readonly
NewSiteProcessor ==
  [id |-> 1,
   config |-> [outputDir |-> "download", outputJsonDir |-> "download/json_results"],
   downloadChain |-> strategies]

\* siteProcessor.ts:59-89: the locals of a call of processSite on the
\* SiteProcessor on, for the site at position i
processSiteLocals(on, i) ==
  [pc |-> "processSite", outcome |-> "none", on |-> on.id,
   siteData |-> [siteName |-> siteNameOf(poolSites[i]), contactLinks |-> << >>]]

\* mutant: siteData is kept in a field of the SiteProcessor, which every call
\* that runs on it reads
callProcessSiteSharedData(p, i) ==
  [j \in DOMAIN p |->
     IF j = i THEN processSiteLocals(processor, i)
     ELSE IF p[j].pc = "processSite"
          THEN [p[j] EXCEPT !.siteData = processSiteLocals(processor, i).siteData]
          ELSE p[j]]

\* part_003:263: processor.processSite(siteUrl) is called for position i
callProcessSite(p, i) == [p EXCEPT ![i] = processSiteLocals(processor, i)]

\* the calls for the first n positions, in their order
RECURSIVE callProcessSites(_, _)
callProcessSites(p, n) ==
  IF n = 0 THEN p ELSE callProcessSite(callProcessSites(p, n - 1), n)

InitPool ==
  /\ processor = Null
  /\ poolPc = "idle"
  /\ poolSites = <<>>
  /\ concurrencyLimit = 0
  /\ siteQueue = <<>>
  /\ completed = 0
  /\ activeWorkers = 0
  /\ resolved = 0
  /\ pipeline = <<>>
  /\ counts = ZeroCounts
  /\ allResults = [h \in HostNames |-> Null]
  /\ fileOps = <<>>
  /\ taken = <<>>

\* lines 199-234: the call, up to the await of the write of all_results.json
ProcessWithWorkerQueue(sites, limit) ==
  /\ poolPc = "idle"
  /\ poolPc' = "initFile"
  /\ poolSites' = sites
  /\ concurrencyLimit' = limit
  /\ pipeline' = [i \in 1..Len(sites) |-> [pc |-> "queued", outcome |-> "none"]]
  /\ processor' = NewSiteProcessor
  /\ UNCHANGED <<siteQueue, completed, activeWorkers, resolved, counts,
                 allResults, fileOps, taken>>
  /\ UNCHANGED <<queueVars, chainVars, contactVars, siteVars, fetchVars, unitVars, pageVars>>

ProcessWithWorkerQueueAny ==
  \E sites \in SiteLists, limit \in Limits : ProcessWithWorkerQueue(sites, limit)

\* the function called with any list, the empty one included (runApp itself
\* returns before the call when the list is empty, part_003:457-460)
ProcessWithWorkerQueueAnyList ==
  \E sites \in SiteLists \cup {<<>>}, limit \in Limits :
     ProcessWithWorkerQueue(sites, limit)

\* lines 411-417 with the calls of processNext (248-263) the loop makes:
\* activeWorkers = workerCount, then calls times processNext()
StartLoop(workerCount, calls) ==
  LET shifts == IF calls < Len(poolSites) THEN calls ELSE Len(poolSites)
      empties == calls - shifts
  IN  /\ siteQueue' = SubSeq(poolSites, shifts + 1, Len(poolSites))
      /\ completed' = shifts
      /\ taken' = SubSeq(poolSites, 1, shifts)
      /\ pipeline' = callProcessSites(pipeline, shifts)
      /\ activeWorkers' = workerCount - empties
      /\ resolved' = IF empties > 0 /\ workerCount - empties <= 0 THEN 1 ELSE 0

\* mutant: the loop starts one worker more than workerCount
InitFileWrittenOneMore ==
  /\ poolPc = "initFile"
  /\ poolPc' = "running"
  /\ LET workerCount == IF concurrencyLimit < Len(poolSites)
                        THEN concurrencyLimit ELSE Len(poolSites)
     IN  StartLoop(workerCount, workerCount + 1)
  /\ UNCHANGED <<poolSites, concurrencyLimit, counts, allResults, fileOps>>
  /\ UNCHANGED <<queueVars, chainVars, contactVars, siteVars, fetchVars, unitVars, pageVars,
                 processor>>

\* lines 230-417: all_results.json was written; the queue is made and the
\* workers are started
InitFileWritten ==
  /\ poolPc = "initFile"
  /\ poolPc' = "running"
  /\ LET workerCount == IF concurrencyLimit < Len(poolSites)
                        THEN concurrencyLimit ELSE Len(poolSites)
     IN  StartLoop(workerCount, workerCount)
  /\ UNCHANGED <<poolSites, concurrencyLimit, counts, allResults, fileOps>>
  /\ UNCHANGED <<queueVars, chainVars, contactVars, siteVars, fetchVars, unitVars, pageVars,
                 processor>>

\* lines 230-234: the write of all_results.json threw
InitFileFails ==
  /\ poolPc = "initFile"
  /\ poolPc' = "thrown"
  /\ UNCHANGED <<poolSites, concurrencyLimit, siteQueue, completed, activeWorkers,
                 resolved, pipeline, counts, allResults, fileOps, taken>>
  /\ UNCHANGED <<queueVars, chainVars, contactVars, siteVars, fetchVars, unitVars, pageVars,
                 processor>>

\* lines 275-302: the counting by errorType
countErrorType(c, errorType) ==
  CASE errorType = "download" -> [c EXCEPT !.downloadErrorCount = @ + 1]
    [] errorType = "llm" -> [c EXCEPT !.llmErrorCount = @ + 1]
    [] errorType = "unexpected" -> [c EXCEPT !.unexpectedErrorCount = @ + 1]
    [] OTHER -> c

\* lines 265-329: what processNext does with the result of processSite for
\* the site at position i
siteReturned(i, result) ==
  /\ IF result.success /\ result.extractedData # Null
     THEN /\ allResults' = [allResults EXCEPT ![hostnameOf(poolSites[i])] = result.extractedData]
          /\ counts' = [countErrorType(counts, result.errorType) EXCEPT !.successCount = @ + 1]
          /\ fileOps' = Append(fileOps, [pos |-> i, siteName |-> hostnameOf(poolSites[i]),
                                         data |-> result.extractedData])
          /\ pipeline' = [pipeline EXCEPT ![i] = [pc |-> "fileOp", outcome |-> result.errorType]]
     ELSE /\ counts' = countErrorType(counts, result.errorType)
          /\ pipeline' = [pipeline EXCEPT ![i] = [pc |-> "logError", outcome |-> result.errorType]]
          /\ UNCHANGED <<allResults, fileOps>>
  /\ UNCHANGED <<poolPc, poolSites, concurrencyLimit, siteQueue, completed,
                 activeWorkers, resolved, taken>>
  /\ UNCHANGED <<queueVars, chainVars, contactVars, siteVars, fetchVars, unitVars, pageVars,
                 processor>>

\* lines 263-329: processSite resolved for the site at position i
SiteReturns(i, result) ==
  /\ poolPc = "running"
  /\ pipeline[i].pc = "processSite"
  /\ siteReturned(i, result)

SiteReturnsAny ==
  \E i \in DOMAIN pipeline, result \in SiteResults : SiteReturns(i, result)

\* lines 263 and 359-360: processSite rejected for the site at position i
SiteThrows(i) ==
  /\ poolPc = "running"
  /\ pipeline[i].pc = "processSite"
  /\ pipeline' = [pipeline EXCEPT ![i] = [pc |-> "logErrorCatch", outcome |-> "threw"]]
  /\ UNCHANGED <<poolPc, poolSites, concurrencyLimit, siteQueue, completed,
                 activeWorkers, resolved, counts, allResults, fileOps, taken>>
  /\ UNCHANGED <<queueVars, chainVars, contactVars, siteVars, fetchVars, unitVars, pageVars,
                 processor>>

SiteThrowsAny == \E i \in DOMAIN pipeline : SiteThrows(i)

\* lines 329-342 and 360-388: logError resolved (it catches all its errors,
\* lines 825-850); the empty result is stored and its file operation enqueued
LogErrorDone(i) ==
  /\ poolPc = "running"
  /\ pipeline[i].pc \in {"logError", "logErrorCatch"}
  /\ counts' = IF pipeline[i].pc = "logError"
               THEN [counts EXCEPT !.errorCount = @ + 1]
               ELSE [counts EXCEPT !.errorCount = @ + 1, !.unexpectedErrorCount = @ + 1]
  /\ allResults' = [allResults EXCEPT ![hostnameOf(poolSites[i])] = EmptyResult]
  /\ fileOps' = Append(fileOps, [pos |-> i, siteName |-> hostnameOf(poolSites[i]),
                                 data |-> EmptyResult])
  /\ pipeline' = [pipeline EXCEPT ![i].pc = "fileOp"]
  /\ UNCHANGED <<poolPc, poolSites, concurrencyLimit, siteQueue, completed,
                 activeWorkers, resolved, taken>>
  /\ UNCHANGED <<queueVars, chainVars, contactVars, siteVars, fetchVars, unitVars, pageVars,
                 processor>>

LogErrorDoneAny == \E i \in DOMAIN pipeline : LogErrorDone(i)

\* a position whose processNext call reached its end (line 406)
EndedPipeline == [pc |-> "done", outcome |-> "none"]

\* processNext(), lines 248-263, called when the pipeline is p
processNext(p) ==
  IF siteQueue = <<>>
  THEN /\ activeWorkers' = activeWorkers - 1
       /\ resolved' = IF activeWorkers - 1 = 0 THEN resolved + 1 ELSE resolved
       /\ pipeline' = p
       /\ UNCHANGED <<siteQueue, completed, taken>>
  ELSE /\ siteQueue' = Tail(siteQueue)
       /\ completed' = completed + 1
       /\ taken' = Append(taken, Head(siteQueue))
       /\ pipeline' = callProcessSite(p, Len(poolSites) - Len(siteQueue) + 1)
       /\ UNCHANGED <<activeWorkers, resolved>>

\* mutant: a worker whose site ended with a failure does not go on
FileOpDoneStopsOnFailure(i) ==
  /\ poolPc = "running"
  /\ pipeline[i].pc = "fileOp"
  /\ fileOps # <<>>
  /\ Head(fileOps).pos = i
  /\ fileOps' = Tail(fileOps)
  /\ IF pipeline[i].outcome = "none"
     THEN processNext([pipeline EXCEPT ![i] = EndedPipeline])
     ELSE /\ pipeline' = [pipeline EXCEPT ![i] = EndedPipeline]
          /\ UNCHANGED <<siteQueue, completed, taken, activeWorkers, resolved>>
  /\ UNCHANGED <<poolPc, poolSites, concurrencyLimit, counts, allResults>>
  /\ UNCHANGED <<queueVars, chainVars, contactVars, siteVars, fetchVars, unitVars, pageVars,
                 processor>>

\* lines 140-175, 311-326, 343-357, 389-406: the file operation of position
\* i ran (it updated all_results.json, or caught the error of its read or
\* write: its promise is resolved either way) and the worker calls
\* processNext()
FileOpDone(i) ==
  /\ poolPc = "running"
  /\ pipeline[i].pc = "fileOp"
  /\ fileOps # <<>>
  /\ Head(fileOps).pos = i
  /\ fileOps' = Tail(fileOps)
  /\ processNext([pipeline EXCEPT ![i] = EndedPipeline])
  /\ UNCHANGED <<poolPc, poolSites, concurrencyLimit, counts, allResults>>
  /\ UNCHANGED <<queueVars, chainVars, contactVars, siteVars, fetchVars, unitVars, pageVars,
                 processor>>

FileOpDoneAny == \E i \in DOMAIN pipeline : FileOpDone(i)

\* lines 421-443: the completion promise is resolved; the error report is
\* written (generateErrorReport catches its errors, lines 556-692) and the
\* counters are returned
PoolReturns ==
  /\ poolPc = "running"
  /\ resolved > 0
  /\ poolPc' = "returned"
  /\ UNCHANGED <<poolSites, concurrencyLimit, siteQueue, completed, activeWorkers,
                 resolved, pipeline, counts, allResults, fileOps, taken>>
  /\ UNCHANGED <<queueVars, chainVars, contactVars, siteVars, fetchVars, unitVars, pageVars,
                 processor>>

(***************************************************************************)
(* fetchHtml of the direct strategies (localHttpsStrategy.ts lines 63-150,  *)
(* part_005 lines 71-144).  Urls are sequences of characters, so that the   *)
(* parsing and the serialisation of new URL(url) are computed.              *)
(***************************************************************************)
startsWith(str, prefix) ==
  Len(str) >= Len(prefix) /\ SubSeq(str, 1, Len(prefix)) = prefix

HttpsPrefix == <<"h", "t", "t", "p", "s", ":", "/", "/">>
HttpPrefix == <<"h", "t", "t", "p", ":", "/", "/">>
WwwPrefix == <<"w", "w", "w", ".">>

\* new URL(url): protocol with its slashes, hostname and pathname
protocolOf(url) == IF startsWith(url, HttpsPrefix) THEN HttpsPrefix ELSE HttpPrefix

afterProtocol(url) == SubSeq(url, Len(protocolOf(url)) + 1, Len(url))

\* the index of the first "/" of str, or Len(str) + 1
RECURSIVE slashIndex(_, _)
slashIndex(str, i) ==
  IF i > Len(str) THEN i
  ELSE IF str[i] = "/" THEN i ELSE slashIndex(str, i + 1)

hostnameOfUrl(url) ==
  SubSeq(afterProtocol(url), 1, slashIndex(afterProtocol(url), 1) - 1)

\* the pathname of a url without a path is "/"
pathnameOfUrl(url) ==
  LET rest == afterProtocol(url)
      i == slashIndex(rest, 1)
  IN  IF i > Len(rest) THEN <<"/">> ELSE SubSeq(rest, i, Len(rest))

\* urlObj.toString() after urlObj.hostname = hostname
urlToString(url, hostname) == protocolOf(url) \o hostname \o pathnameOfUrl(url)

\* generateUrlVariations(url): the Set, in the order of its insertions
generateUrlVariations(url) ==
  LET hostname == hostnameOfUrl(url)
      hasWww == startsWith(hostname, WwwPrefix)
      baseHostname == IF hasWww THEN SubSeq(hostname, 5, Len(hostname)) ELSE hostname
      wwwHostname == IF hasWww THEN hostname ELSE WwwPrefix \o hostname
  IN  <<urlToString(url, wwwHostname), urlToString(url, baseHostname)>>

\* potentialUrls.delete(url)
deleteUrl(potentialUrls, url) ==
  LET differs(u) == u # url IN SelectSeq(potentialUrls, differs)

\* the loop over potentialUrls: outcomes[i] is how the i-th request ends;
\* returns the requests made and the url that answered, if one did
RECURSIVE tryVariations(_, _, _, _)
tryVariations(potentialUrls, outcomes, i, requests) ==
  IF i > Len(potentialUrls) THEN [requests |-> requests, ok |-> FALSE, effectiveUrl |-> <<>>]
  ELSE IF outcomes[i] = GotOk
       THEN [requests |-> Append(requests, potentialUrls[i]), ok |-> TRUE,
             effectiveUrl |-> potentialUrls[i]]
       ELSE tryVariations(potentialUrls, outcomes, i + 1, Append(requests, potentialUrls[i]))

\* fetchHtml(url) of the strategy when the first request ends as first and
\* the later requests as outcomes
fetchHtml(strategy, url, first, outcomes) ==
  LET retryable == IF strategy = "Local HTTPS" THEN LocalHttpsIsRetryableError(first)
                   ELSE LocalHttpIsRetryableError(first)
      fallback == tryVariations(deleteUrl(generateUrlVariations(url), url), outcomes,
                                1, <<url>>)
      failure == [type |-> "Error",
                  message |-> <<IF strategy = "Local HTTPS" THEN "All HTTPS " ELSE "All HTTP ",
                                "fetch attempts failed", " for ", url>>]
  IN  IF first = GotOk
      THEN [requests |-> <<url>>, ok |-> TRUE, effectiveUrl |-> url, error |-> Null]
      ELSE IF retryable
           THEN IF fallback.ok
                THEN [requests |-> fallback.requests, ok |-> TRUE,
                      effectiveUrl |-> fallback.effectiveUrl, error |-> Null]
                ELSE [requests |-> fallback.requests, ok |-> FALSE,
                      effectiveUrl |-> <<>>, error |-> failure]
           ELSE [requests |-> <<url>>, ok |-> FALSE, effectiveUrl |-> <<>>, error |-> failure]

\* the urls fetchHtml is called with: site urls as ensureUrlScheme leaves
\* them, and a contact link as new URL(href, base).href serialises it
FetchUrls ==
  {chars("https://a.example"), chars("https://www.c.example"),
   chars("http://b.example"), chars("https://a.example/contact")}

\* how a request of got ends
RequestOutcomes == {GotOk} \cup GotErrors

DirectStrategies == {"Local HTTPS", "Local HTTP"}

\* download(url) gives fetchHtml the url with the scheme of the strategy
schemeFor(strategy, url) ==
  IF strategy = "Local HTTPS"
  THEN IF startsWith(url, HttpPrefix) THEN HttpsPrefix \o afterProtocol(url) ELSE url
  ELSE IF startsWith(url, HttpsPrefix) THEN HttpPrefix \o afterProtocol(url) ELSE url

InitFetch == fetch = [pc |-> "idle"]

\* one call of fetchHtml
FetchHtmlCall ==
  /\ fetch.pc = "idle"
  /\ \E strategy \in DirectStrategies, input \in FetchUrls, first \in RequestOutcomes :
        LET url == schemeFor(strategy, input) IN
        \E outcomes \in [DOMAIN generateUrlVariations(url) -> RequestOutcomes] :
           fetch' = [pc |-> "returned", strategy |-> strategy, url |-> url,
                     first |-> first, outcomes |-> outcomes,
                     out |-> fetchHtml(strategy, url, first, outcomes)]
  /\ UNCHANGED <<queueVars, chainVars, contactVars, siteVars, poolVars, pageVars, unitVars>>

(***************************************************************************)
(* HeadlessBrowserStrategy.waitForPageContent (part_004:108-135): the wait *)
(* for a rendered page, with the clock the timers and Date.now() read.     *)
(***************************************************************************)
initialRenderDelay == 1000   \* the delay before the loop
maxWaitTime == 5000
stableDifference == 50       \* a smaller change of the length counts as stable
stableNeeded == 3            \* stable checks in a row that end the loop
samplePause == 500           \* the delay at the end of an iteration

\* values of document.documentElement.outerHTML.length
DocLengths == {10, 100, 149, 150}

\* the time one page.evaluate call takes
EvaluateTimes == {0, 250}

\* the samples kept for the properties: the last four
RecentKept == stableNeeded + 1

abs(x) == IF x < 0 THEN 0 - x ELSE x

lastOf(s, n) == IF Len(s) <= n THEN s ELSE SubSeq(s, Len(s) - n + 1, Len(s))

InitWait == wait = [pc |-> "idle"]

\* the while condition, and the page.evaluate call of an iteration that starts
loopTest(w) ==
  IF w.now - w.startTime < maxWaitTime
  THEN [w EXCEPT !.pc = "evaluating"]
  ELSE [w EXCEPT !.pc = "returned", !.stoppedBy = "time"]

\* the body of an iteration once page.evaluate has given docLength
sampledResetsNever(w, docLength) ==
  LET stable == abs(docLength - w.previousDocumentLength) < stableDifference
      count == IF stable THEN w.stableCount + 1 ELSE w.stableCount
  IN  IF stable /\ count >= stableNeeded
      THEN [w EXCEPT !.pc = "returned", !.stoppedBy = "stable", !.stableCount = count]
      ELSE [w EXCEPT !.pc = "pausing", !.stableCount = count,
                     !.previousDocumentLength = docLength]

sampled(w, docLength) ==
  LET stable == abs(docLength - w.previousDocumentLength) < stableDifference
      count == IF stable THEN w.stableCount + 1 ELSE 0
  IN  IF stable /\ count >= stableNeeded
      THEN [w EXCEPT !.pc = "returned", !.stoppedBy = "stable", !.stableCount = count]
      ELSE [w EXCEPT !.pc = "pausing", !.stableCount = count,
                     !.previousDocumentLength = docLength]

\* the call, up to its first await
WaitForPageContent ==
  /\ wait.pc = "idle"
  /\ wait' = [pc |-> "settling", now |-> 0]
  /\ UNCHANGED <<queueVars, chainVars, contactVars, siteVars, poolVars, fetchVars, unitVars, pass>>

\* the first timer fires: the locals are set and the loop is entered
InitialRenderElapsed ==
  /\ wait.pc = "settling"
  /\ LET now == wait.now + initialRenderDelay IN
     wait' = loopTest([pc |-> "settling", now |-> now, startTime |-> now,
                       previousDocumentLength |-> 0, stableCount |-> 0,
                       stoppedBy |-> "none", samples |-> 0, recent |-> << >>,
                       resolvedAt |-> now])
  /\ UNCHANGED <<queueVars, chainVars, contactVars, siteVars, poolVars, fetchVars, unitVars, pass>>

\* page.evaluate resolves and the rest of the iteration runs up to its await
EvaluateResolves ==
  /\ wait.pc = "evaluating"
  /\ \E docLength \in DocLengths, took \in EvaluateTimes :
        wait' = sampled([wait EXCEPT !.now = @ + took,
                                     !.resolvedAt = wait.now + took,
                                     !.samples = @ + 1,
                                     !.recent = lastOf(Append(@, docLength), RecentKept)],
                        docLength)
  /\ UNCHANGED <<queueVars, chainVars, contactVars, siteVars, poolVars, fetchVars, unitVars, pass>>

\* the timer at the end of an iteration fires and the condition is tested
SamplePauseElapsed ==
  /\ wait.pc = "pausing"
  /\ wait' = loopTest([wait EXCEPT !.now = @ + samplePause])
  /\ UNCHANGED <<queueVars, chainVars, contactVars, siteVars, poolVars, fetchVars, unitVars, pass>>

(***************************************************************************)
(* The second acquisition pass: stage 2 of processSite                     *)
(* (siteProcessor.ts:187-200), ContactFinder.processContactPages and       *)
(* processSpaContactPages (part_000:52-141) and                            *)
(* HeadlessBrowserStrategy.processContactPages (part_004:365-456).         *)
(***************************************************************************)
\* StatusReporter.getProtocolFromUrl (part_002:81-91)
getProtocolFromUrl(url) ==
  IF startsWith(url, HttpsPrefix) THEN "HTTPS"
  ELSE IF startsWith(url, HttpPrefix) THEN "HTTP"
  ELSE "Unknown"

\* mutant: the contact pass always downloads over HTTPS
strategyOfHttpsOnly(protocol) == "Local HTTPS"

\* part_000:78-80: the one strategy of the direct path
strategyOf(protocol) ==
  IF protocol = "HTTPS" THEN "Local HTTPS" ELSE "Local HTTP"

\* the contact links of a main page and what a download of each gives
ContactUrls == {"https://a.example/contact", "https://a.example/about"}

contentOf(link) ==
  IF link = "https://a.example/contact" THEN "Contact us" ELSE "About us"

\* the arrays findContactLinks gives stage 2 when it goes on to the pass
ContactLinkArrays == UNION {[1..n -> ContactUrls] : n \in 1..MaxLinks}

\* how the download of a link ends if it is made: with a result, with the
\* error of fetchHtml, or with an error of the conversion of the markup
LinkOutcomes == {"ok", "fetch failed", "conversion failed"}

\* the effective urls and sizes of a main page at stage 2
EffectiveUrls == {chars("https://a.example"), chars("http://b.example")}

MainSizes == {1499, 1500}

\* the text added for a page, as the pieces of the template literal
fetchedContent(contactLink, content) ==
  <<"\n\n==== Fetched Content From: ", contactLink, " ====\n\n", content>>

\* the for loop up to its next await: links already processed are skipped
RECURSIVE skipProcessed(_)
skipProcessed(p) ==
  IF p.idx <= Len(p.contactLinks) /\ p.contactLinks[p.idx] \in p.processedLinks
  THEN skipProcessed([p EXCEPT !.idx = @ + 1])
  ELSE p

\* part_000:98-104: the record the direct path returns
directResult(p) ==
  [p EXCEPT !.pc = "returned",
            !.out = [contactLinks |-> p.contactLinks,
                     contactContent |-> p.contactContent,
                     successCount |-> p.successCount,
                     failureCount |-> p.failureCount,
                     protocol |-> p.protocol]]

\* part_000:82-96: the loop of the direct path up to its next await
directLoop(p) ==
  LET q == skipProcessed(p) IN
  IF q.idx > Len(q.contactLinks) THEN directResult(q) ELSE q

\* part_004:410-442: the loop of the rendering path up to its next await,
\* which is that of browser.close() once the links are done
spaLoop(p) ==
  LET q == skipProcessed(p) IN
  IF q.idx > Len(q.contactLinks) THEN [q EXCEPT !.pc = "closing"] ELSE q

\* mutant: the first failure of a link ends the loop
attemptedStopsAtFailure(p, via, outcome) ==
  LET q == [p EXCEPT !.attempts = Append(@, [pos |-> p.idx, link |-> p.contactLinks[p.idx],
                                             via |-> via, outcome |-> outcome])]
  IN  IF outcome = "ok"
      THEN [q EXCEPT !.contactContent =
                        @ \o fetchedContent(p.contactLinks[p.idx],
                                            contentOf(p.contactLinks[p.idx])),
                     !.processedLinks = @ \cup {p.contactLinks[p.idx]},
                     !.successCount = @ + 1,
                     !.idx = @ + 1]
      ELSE [q EXCEPT !.failureCount = @ + 1, !.idx = Len(p.contactLinks) + 1]

\* the try and catch of one link, part_000:87-95 and part_004:415-441
attempted(p, via, outcome) ==
  LET q == [p EXCEPT !.attempts = Append(@, [pos |-> p.idx, link |-> p.contactLinks[p.idx],
                                             via |-> via, outcome |-> outcome])]
  IN  IF outcome = "ok"
      THEN [q EXCEPT !.contactContent =
                        @ \o fetchedContent(p.contactLinks[p.idx],
                                            contentOf(p.contactLinks[p.idx])),
                     !.processedLinks = @ \cup {p.contactLinks[p.idx]},
                     !.successCount = @ + 1,
                     !.idx = @ + 1]
      ELSE [q EXCEPT !.failureCount = @ + 1, !.idx = @ + 1]

\* ContactFinder.processContactPages up to its first await
processContactPages(contactLinks, protocol, isSpa, mainSize, outcomes) ==
  LET p == [pc |-> "direct", contactLinks |-> contactLinks, protocol |-> protocol,
            isSpa |-> isSpa, mainSize |-> mainSize, outcomes |-> outcomes,
            idx |-> 1, contactContent |-> << >>, successCount |-> 0,
            failureCount |-> 0, processedLinks |-> {}, attempts |-> << >>,
            session |-> "none", out |-> [protocol |-> "none"]]
  IN  IF Len(contactLinks) = 0
      THEN [p EXCEPT !.pc = "returned",
                     !.out = [contactLinks |-> << >>, contactContent |-> << >>,
                              successCount |-> 0, failureCount |-> 0,
                              protocol |-> protocol]]
      ELSE IF isSpa
      THEN [p EXCEPT !.pc = "launching"]
      ELSE directLoop(p)

InitPass == pass = [pc |-> "idle"]

\* siteProcessor.ts:119-123 and 187-199: stage 2 calls the pass for the
\* contact links found, with the flag the size of the main page has set
ContactStage ==
  /\ pass.pc = "idle"
  /\ \E contactLinks \in ContactLinkArrays, effectiveUrl \in EffectiveUrls,
        mainSize \in MainSizes :
        \E outcomes \in [DOMAIN contactLinks -> LinkOutcomes] :
           pass' = processContactPages(contactLinks, getProtocolFromUrl(effectiveUrl),
                                       initialIsSpa(mainSize), mainSize, outcomes)
  /\ UNCHANGED <<queueVars, chainVars, contactVars, siteVars, poolVars, fetchVars, unitVars, wait>>

\* part_000:88-95: strategy.download(contactLink) returned or threw
DirectDownloadSettles ==
  /\ pass.pc = "direct"
  /\ pass' = directLoop(attempted(pass, strategyOf(pass.protocol), pass.outcomes[pass.idx]))
  /\ UNCHANGED <<queueVars, chainVars, contactVars, siteVars, poolVars, fetchVars, unitVars, wait>>

\* part_004:383-410: the browser and its page are ready
SessionOpens ==
  /\ pass.pc = "launching"
  /\ pass' = spaLoop([pass EXCEPT !.pc = "spa", !.session = "open"])
  /\ UNCHANGED <<queueVars, chainVars, contactVars, siteVars, poolVars, fetchVars, unitVars, wait>>

\* part_004:443-455: puppeteer.launch threw, or a call that sets the page up
\* did and the browser is closed
SessionFails ==
  /\ pass.pc = "launching"
  /\ \E launched \in BOOLEAN :
        pass' = IF launched
                THEN [pass EXCEPT !.pc = "closing", !.session = "failed"]
                ELSE [pass EXCEPT !.pc = "returned", !.session = "failed",
                                  !.out = [contactLinks |-> pass.contactLinks,
                                           contactContent |-> << >>,
                                           successCount |-> 0, failureCount |-> 0,
                                           protocol |-> pass.protocol]]
  /\ UNCHANGED <<queueVars, chainVars, contactVars, siteVars, poolVars, fetchVars, unitVars, wait>>

\* part_004:415-441: the page of a link was rendered and converted, or a
\* call on the way threw
RenderedLinkSettles ==
  /\ pass.pc = "spa"
  /\ pass' = spaLoop(attempted(pass, "Headless Browser", pass.outcomes[pass.idx]))
  /\ UNCHANGED <<queueVars, chainVars, contactVars, siteVars, poolVars, fetchVars, unitVars, wait>>

\* part_004:445-455 and part_000:122-130: browser.close() resolved
SessionCloses ==
  /\ pass.pc = "closing"
  /\ pass' = [pass EXCEPT !.pc = "returned",
                          !.out = [contactLinks |-> pass.contactLinks,
                                   contactContent |-> pass.contactContent,
                                   successCount |-> pass.successCount,
                                   failureCount |-> pass.failureCount,
                                   protocol |-> pass.protocol]]
  /\ UNCHANGED <<queueVars, chainVars, contactVars, siteVars, poolVars, fetchVars, unitVars, wait>>

\* part_004:445-449 and part_000:131-139: browser.close() threw
SessionCloseThrows ==
  /\ pass.pc = "closing"
  /\ pass' = [pass EXCEPT !.pc = "returned", !.session = "closeFailed",
                          !.out = [contactLinks |-> pass.contactLinks,
                                   contactContent |-> << >>,
                                   successCount |-> 0,
                                   failureCount |-> Len(pass.contactLinks),
                                   protocol |-> pass.protocol]]
  /\ UNCHANGED <<queueVars, chainVars, contactVars, siteVars, poolVars, fetchVars, unitVars, wait>>

(***************************************************************************)
(* FileOperationQueue (part_003:140-179) with the operations processNext   *)
(* enqueues on it (part_003:310-326, 341-357, 389-402): each reads         *)
(* all_results.json, sets the key of its site and writes the file back.    *)
(* The file is a map from site names to the operation whose data it holds. *)
(***************************************************************************)
\* how a readFile or writeFile call ends
FileOutcomes == {"ok", "failed"}

\* part_003:230-234: all_results.json holds {} when the workers start
EmptyFile == [h \in HostNames |-> 0]

InitSink ==
  sink = [queue |-> <<>>, running |-> FALSE, ops |-> <<>>, file |-> EmptyFile,
          started |-> <<>>]

\* part_003:146-153 and 310-313: an operation as enqueue pushes it
queuedOperation(siteName) ==
  [siteName |-> siteName, pc |-> "queued", read |-> Null, stored |-> FALSE,
   handle |-> "pending"]

\* lines 166-177: the loop of processQueue; it shifts the next operation and
\* calls it, which runs up to its readFile (line 313), or it ends
runNext(s) ==
  IF s.queue = <<>>
  THEN [s EXCEPT !.running = FALSE]
  ELSE [s EXCEPT !.queue = Tail(@),
                 !.ops[Head(s.queue)].pc = "reading",
                 !.started = Append(@, Head(s.queue))]

\* mutant: processQueue does not set running
processQueueNoFlag(s) == IF s.running THEN s ELSE runNext(s)

\* lines 161-170: processQueue(), up to its first await
processQueue(s) == IF s.running THEN s ELSE runNext([s EXCEPT !.running = TRUE])

\* lines 144-158: enqueue(operation)
enqueue(s, siteName) ==
  LET pushed == [s EXCEPT !.ops = Append(@, queuedOperation(siteName)),
                          !.queue = Append(@, Len(s.ops) + 1)]
  IN  IF ~pushed.running THEN processQueue(pushed) ELSE pushed

\* lines 148-149 and 170: the operation k ended (it catches the errors of its
\* read and write, lines 323-325), its promise is resolved and the loop of
\* processQueue goes on
operationEnds(s, k, stored) ==
  runNext([s EXCEPT !.ops[k] = [@ EXCEPT !.pc = "settled", !.read = Null,
                                         !.stored = stored,
                                         !.handle = "resolved"]])

\* a worker enqueues the update for its site (lines 310, 341, 389)
SinkEnqueue(siteName) ==
  /\ Len(sink.ops) < MaxOps
  /\ sink' = enqueue(sink, siteName)
  /\ UNCHANGED <<queueVars, chainVars, contactVars, siteVars, poolVars, fetchVars,
                 pageVars, scoring, render>>

SinkEnqueueAny == \E siteName \in HostNames : SinkEnqueue(siteName)

\* lines 313-321: readFile resolved; the content is parsed, the key is set
\* and writeFile is called
ReadReturns ==
  /\ \E k \in DOMAIN sink.ops :
        /\ sink.ops[k].pc = "reading"
        /\ sink' = [sink EXCEPT !.ops[k].pc = "writing", !.ops[k].read = sink.file]
  /\ UNCHANGED <<queueVars, chainVars, contactVars, siteVars, poolVars, fetchVars,
                 pageVars, scoring, render>>

\* lines 313 and 323-325: readFile or JSON.parse threw
ReadThrows ==
  /\ \E k \in DOMAIN sink.ops :
        /\ sink.ops[k].pc = "reading"
        /\ sink' = operationEnds(sink, k, FALSE)
  /\ UNCHANGED <<queueVars, chainVars, contactVars, siteVars, poolVars, fetchVars,
                 pageVars, scoring, render>>

\* lines 315-322: writeFile resolved; the file holds what the operation read
\* with the key of its site set
WriteReturns ==
  /\ \E k \in DOMAIN sink.ops :
        /\ sink.ops[k].pc = "writing"
        /\ sink' = operationEnds(
                     [sink EXCEPT !.file = [sink.ops[k].read EXCEPT ![sink.ops[k].siteName] = k]],
                     k, TRUE)
  /\ UNCHANGED <<queueVars, chainVars, contactVars, siteVars, poolVars, fetchVars,
                 pageVars, scoring, render>>

\* lines 317 and 323-325: writeFile threw
WriteThrows ==
  /\ \E k \in DOMAIN sink.ops :
        /\ sink.ops[k].pc = "writing"
        /\ sink' = operationEnds(sink, k, FALSE)
  /\ UNCHANGED <<queueVars, chainVars, contactVars, siteVars, poolVars, fetchVars,
                 pageVars, scoring, render>>

(***************************************************************************)
(* HeadlessBrowserStrategy.findMainContent (part_004:196-262) over parsed  *)
(* documents.  A document is its elements in document order; an element    *)
(* holds the index of its parent (0 is body, whose parent is html), its    *)
(* tag, its class and id attributes as sequences of characters, the length *)
(* of the text and the numbers of p, heading, img and list elements it     *)
(* holds outside the elements listed after it.                             *)
(***************************************************************************)
\* the alternatives of positiveRegex, line 224
positiveWords ==
  <<<<"c", "o", "n", "t", "e", "n", "t">>,
    <<"a", "r", "t", "i", "c", "l", "e">>,
    <<"p", "o", "s", "t">>,
    <<"e", "n", "t", "r", "y">>,
    <<"t", "e", "x", "t">>,
    <<"b", "o", "d", "y">>,
    <<"c", "o", "l", "u", "m", "n">>,
    <<"m", "a", "i", "n">>,
    <<"p", "a", "g", "e">>>>

\* the alternatives of negativeRegex, line 228
negativeWords ==
  <<<<"c", "o", "m", "m", "e", "n", "t">>,
    <<"m", "e", "t", "a">>,
    <<"f", "o", "o", "t", "e", "r">>,
    <<"f", "o", "o", "t", "n", "o", "t", "e">>,
    <<"s", "i", "d", "e", "b", "a", "r">>,
    <<"w", "i", "d", "g", "e", "t">>,
    <<"b", "a", "n", "n", "e", "r">>,
    <<"a", "d">>,
    <<"p", "r", "o", "m", "o">>,
    <<"n", "a", "v", "i", "g", "a", "t", "i", "o", "n">>,
    <<"n", "a", "v">>,
    <<"m", "e", "n", "u">>>>

\* String.prototype.toLowerCase for the letters of the class names
lowerLetter(c) == IF c = "N" THEN "n" ELSE IF c = "P" THEN "p" ELSE c

\* RegExp.prototype.test of an alternation of literal words with the i flag
testWords(words, str) ==
  LET low == [i \in DOMAIN str |-> lowerLetter(str[i])]
  IN  \E w \in DOMAIN words : includesStr(low, words[w])

\* the elements body and html, and the empty selection above html
BodyElement == 0
HtmlElement == 0 - 1
NoElement == 0 - 2

\* lines 223 and 235: the class and id attributes of an element, joined
classAndId(doc, el) ==
  IF el = BodyElement THEN doc.body \o <<" ">>
  ELSE IF el = HtmlElement THEN doc.html \o <<" ">>
  ELSE doc.elements[el].class \o <<" ">> \o doc.elements[el].id

\* $element.parent()
parentOf(doc, el) ==
  IF el = BodyElement THEN HtmlElement
  ELSE IF el = HtmlElement THEN NoElement
  ELSE doc.elements[el].parent

\* el is inside the element top, or is top
RECURSIVE inSubtree(_, _, _)
inSubtree(doc, top, el) ==
  IF el = top THEN TRUE
  ELSE IF el < top \/ el <= BodyElement THEN FALSE
  ELSE inSubtree(doc, top, doc.elements[el].parent)

\* $element.text().length and $element.find(...).length: what the element
\* and the elements inside it hold
RECURSIVE sumFrom(_, _, _, _)
sumFrom(doc, top, el, field) ==
  IF el > Len(doc.elements) THEN 0
  ELSE (IF inSubtree(doc, top, el) THEN doc.elements[el][field] ELSE 0)
         + sumFrom(doc, top, el + 1, field)

total(doc, el, field) == sumFrom(doc, el, el, field)

\* line 201: the selector of the content containers
selectorMatches(e) ==
  \/ e.tag \in {"div", "section", "article", "main"}
  \/ e.class \in {<<"c", "o", "n", "t", "e", "n", "t">>, <<"p", "o", "s", "t">>,
                 <<"a", "r", "t", "i", "c", "l", "e">>, <<"p", "a", "g", "e", "-", "c", "o", "n", "t", "e", "n", "t">>,
                 <<"e", "n", "t", "r", "y", "-", "c", "o", "n", "t", "e", "n", "t">>}
  \/ e.id = <<"c", "o", "n", "t", "e", "n", "t">>

\* lines 203-229: the score of an element
scoreOf(doc, el) ==
  LET hundreds == total(doc, el, "text") \div 100
  IN  (IF hundreds < 20 THEN hundreds ELSE 20)
        + total(doc, el, "p") * 2
        + total(doc, el, "h") * 3
        + total(doc, el, "img")
        + total(doc, el, "lists") * 2
        + (IF testWords(positiveWords, classAndId(doc, el)) THEN 5 ELSE 0)
        - (IF testWords(negativeWords, classAndId(doc, el)) THEN 10 ELSE 0)

\* lines 232-240: the loop over the parents of an element
RECURSIVE nestedFrom(_, _, _)
nestedFrom(doc, parent, i) ==
  IF ~(i < 3 /\ parent # NoElement) THEN FALSE
  ELSE IF testWords(positiveWords, classAndId(doc, parent)) THEN TRUE
  ELSE nestedFrom(doc, parentOf(doc, parent), i + 1)

isNested(doc, el) == nestedFrom(doc, parentOf(doc, el), 0)

\* line 243: the test for candidates.push
pushed(doc, el) ==
  scoreOf(doc, el) > 10 /\ total(doc, el, "text") > 200 /\ ~isNested(doc, el)

\* lines 201-246: the candidates, in the order each() visits the elements
RECURSIVE candidatesFrom(_, _)
candidatesFrom(doc, el) ==
  IF el > Len(doc.elements) THEN <<>>
  ELSE (IF selectorMatches(doc.elements[el]) /\ pushed(doc, el)
        THEN <<[element |-> el, score |-> scoreOf(doc, el)]>>
        ELSE <<>>) \o candidatesFrom(doc, el + 1)

\* Array.prototype.sort with (a, b) => b.score - a.score, which is stable: a
\* candidate goes before the first one of a lower score
RECURSIVE insertSorted(_, _)
insertSorted(sorted, c) ==
  IF sorted = <<>> THEN <<c>>
  ELSE IF Head(sorted).score < c.score THEN <<c>> \o sorted
  ELSE <<Head(sorted)>> \o insertSorted(Tail(sorted), c)

RECURSIVE sortCandidates(_, _)
sortCandidates(sorted, rest) ==
  IF rest = <<>> THEN sorted
  ELSE sortCandidates(insertSorted(sorted, Head(rest)), Tail(rest))

\* mutant: the top candidate is returned whatever its score
returnsTopAlways(topCandidate) == TRUE

\* line 255
returnsTop(topCandidate) == topCandidate.score > 20

\* line 256: element.html(), told by the element it is the html of
htmlOf(el) == [type |-> "html", element |-> el]

\* lines 196-262: the html returned, or null
findMainContent(doc) ==
  LET candidates == sortCandidates(<<>>, candidatesFrom(doc, 1))
  IN  IF Len(candidates) > 0 /\ returnsTop(candidates[1])
      THEN htmlOf(candidates[1].element)
      ELSE Null

\* the kinds of element of the documents, with scores of 100, 2 (a nav is no
\* content container), 20, 21 and 22 (with a text of 200 characters)
ElementKinds ==
  { [tag |-> "article", class |-> <<>>, id |-> <<>>,
     text |-> 2400, p |-> 40, h |-> 0, img |-> 0, lists |-> 0],
    [tag |-> "nav", class |-> <<>>, id |-> <<>>,
     text |-> 300, p |-> 0, h |-> 0, img |-> 0, lists |-> 1],
    [tag |-> "div", class |-> <<>>, id |-> <<"c", "o", "n", "t", "e", "n", "t">>,
     text |-> 201, p |-> 5, h |-> 1, img |-> 0, lists |-> 0],
    [tag |-> "div", class |-> <<"s", "i", "d", "e", "-", "N", "a", "v">>, id |-> <<>>,
     text |-> 1100, p |-> 9, h |-> 0, img |-> 2, lists |-> 0],
    [tag |-> "div", class |-> <<>>, id |-> <<>>,
     text |-> 200, p |-> 10, h |-> 0, img |-> 0, lists |-> 0] }

\* the class attributes of html and body
RootClasses == {<<<<>>, <<>>>>, <<<<"P", "a", "g", "e">>, <<>>>>}

\* the parents a parsed document gives its elements: each element is a child
\* of body, of the element before it or of one that holds the element before
ParentsOf(n) ==
  {f \in [1..n -> 0..(n - 1)] :
     \A i \in 1..n :
        /\ f[i] < i
        /\ \/ f[i] = 0
           \/ LET holds[j \in 0..n] ==
                     IF j = 0 THEN FALSE ELSE IF j = f[i] THEN TRUE ELSE holds[f[j]]
              IN  holds[i - 1]}

\* the element of kind k with the parent parent
elementOf(k, parent) ==
  [parent |-> parent, tag |-> k.tag, class |-> k.class, id |-> k.id, text |-> k.text,
   p |-> k.p, h |-> k.h, img |-> k.img, lists |-> k.lists]

InitScoring == scoring = [pc |-> "idle"]

\* processHtml calls findMainContent on a parsed document (line 186)
FindMainContentCall ==
  /\ scoring.pc = "idle"
  /\ \E roots \in RootClasses, n \in 1..MaxNodes :
        \E f \in ParentsOf(n), k \in [1..n -> ElementKinds] :
           LET doc == [html |-> roots[1], body |-> roots[2],
                       elements |-> [i \in 1..n |-> elementOf(k[i], f[i])]]
           IN  scoring' = [pc |-> "returned", doc |-> doc, out |-> findMainContent(doc)]
  /\ UNCHANGED <<queueVars, chainVars, contactVars, siteVars, poolVars, fetchVars,
                 pageVars, sink, render>>

(***************************************************************************)
(* runApp (part_003:447-522) end to end: the worker pool, the batch        *)
(* processor its calls of processSite enqueue on, and the drain runApp     *)
(* calls when the pool has returned.  A call of processSite is cut down to *)
(* whether it reaches its extraction request; every external call it makes *)
(* returns or fails.                                                       *)
(***************************************************************************)
\* the continuation of an await of processWithLLM is due (a microtask: it
\* runs before any timer, network callback or other call)
RunDue ==
  /\ ev.op = "flushDone"
  /\ \E i \in DOMAIN pipeline :
        pipeline[i].pc = "awaitLLM" /\ Settlement(pipeline[i].req) # {}

\* siteProcessor.ts:59-314: acquisition and contact pass are over and
\* processSite awaits processWithLLM, which calls queueItem with the site name
RunExtractionRequested(i) ==
  /\ poolPc = "running"
  /\ ~RunDue
  /\ pipeline[i].pc = "processSite"
  /\ queueItemCall(siteNameOf(poolSites[i]))
  /\ pipeline' = [pipeline EXCEPT ![i] = [pc |-> "awaitLLM", outcome |-> "none",
                                          req |-> nEnq + 1]]
  /\ UNCHANGED <<poolPc, poolSites, concurrencyLimit, siteQueue, completed,
                 activeWorkers, resolved, counts, allResults, fileOps, taken>>
  /\ UNCHANGED <<chainVars, contactVars, siteVars, fetchVars, unitVars, pageVars,
                 processor>>

RunExtractionRequestedAny == \E i \in DOMAIN pipeline : RunExtractionRequested(i)

\* siteProcessor.ts:262-300 and 367-382: processSite returns without an
\* extraction request, after a failed download or an unexpected error
RunReturnsEarly ==
  /\ ~RunDue
  /\ \E i \in DOMAIN pipeline :
        \E result \in {r \in SiteResults : r.errorType \in {"download", "unexpected"}} :
           SiteReturns(i, result)

\* siteProcessor.ts:314-366: the promise of the extraction request settled
\* and processSite returns
RunExtractionSettles(i) ==
  /\ poolPc = "running"
  /\ ev.op = "flushDone"
  /\ pipeline[i].pc = "awaitLLM"
  /\ \E st \in Settlement(pipeline[i].req) :
        siteReturned(i, IF st.state = "fulfilled"
                        THEN [success |-> TRUE, errorType |-> "none",
                              extractedData |-> st.value, error |-> Null]
                        ELSE [success |-> FALSE, errorType |-> "llm",
                              extractedData |-> Null, error |-> SiteError])

RunExtractionSettlesAny == \E i \in DOMAIN pipeline : RunExtractionSettles(i)

\* a step the batch processor takes on its own
RunQueueStep == ~RunDue /\ (TimerFires \/ Attempt \/ Backoff)

\* part_003:485-487: the pool returned and runApp awaits
\* processRemainingLLMItems()
RunDrain ==
  /\ poolPc = "returned"
  /\ nDrain = 0
  /\ processRemainingItems

(***************************************************************************)
(* The browser sessions of HeadlessBrowserStrategy: download               *)
(* (part_004:21-102) renders the main page and processContactPages         *)
(* (part_004:382-456) the contact pages, each in a browser it launches.    *)
(* Every awaited call may resolve or throw; the browser is "undefined"     *)
(* until puppeteer.launch resolved, then "open" until browser.close()      *)
(* settled.                                                                *)
(***************************************************************************)
\* the awaited calls of download between the launch and the finally block,
\* lines 38-75 (the conversion of lines 78-82 runs in the step of the last)
DownloadCalls ==
  <<"newPage", "setUserAgent", "setDefaultNavigationTimeout", "setDefaultTimeout",
    "setRequestInterception", "goto", "waitForPageContent", "extractLinks", "content">>

\* lines 398-402: the calls that set the page of processContactPages up
SetupCalls == <<"newPage", "setUserAgent", "setRequestInterception">>

\* lines 417-426: the awaited calls for one contact link
LinkCalls == <<"goto", "waitForPageContent", "content">>

\* why a call rejects
ThrowCauses == {"failure", "timeout"}

InitRender == render = [pc |-> "idle"]

\* lines 24-27 and 382-384: the operation up to its await of puppeteer.launch
launching(op, links) ==
  [pc |-> "launching", op |-> op, browser |-> "undefined", phase |-> "setup",
   idx |-> 1, links |-> links, failureCount |-> 0, cause |-> "none",
   failedAt |-> "none", result |-> "none", launches |-> 0, closes |-> 0]

\* lines 365-384: processContactPages returns at once for an empty list
renderContactPages(links) ==
  IF links = 0
  THEN [launching("contacts", 0) EXCEPT !.pc = "returned", !.result = "returned"]
  ELSE launching("contacts", links)

callsOf(r) ==
  IF r.op = "download" THEN DownloadCalls
  ELSE IF r.phase = "setup" THEN SetupCalls ELSE LinkCalls

\* mutant: the browser is closed only on the way to a return
finallyCloseOnReturn(r, result) ==
  IF r.browser # "undefined" /\ result = "returned"
  THEN [r EXCEPT !.pc = "closing", !.result = result, !.closes = @ + 1]
  ELSE [r EXCEPT !.pc = result, !.result = result]

\* lines 97-101 and 445-449: the finally block, entered on the way to a
\* return or a throw; it calls browser.close() when a browser was launched
finallyClose(r, result) ==
  IF r.browser # "undefined"
  THEN [r EXCEPT !.pc = "closing", !.result = result, !.closes = @ + 1]
  ELSE [r EXCEPT !.pc = result, !.result = result]

\* lines 93-96: the catch of download throws a new error; lines 443-444:
\* that of processContactPages logs and goes on to the return
caught(r, cause) ==
  LET q == [r EXCEPT !.cause = cause,
                     !.failedAt = IF r.pc = "launching" THEN "launch"
                                  ELSE callsOf(r)[r.idx]]
  IN  finallyClose(q, IF r.op = "download" THEN "thrown" ELSE "returned")

\* lines 410-415: the for loop takes the next link, or ends
nextLink(r) ==
  IF r.links = 0
  THEN finallyClose(r, "returned")
  ELSE [r EXCEPT !.pc = "calling", !.phase = "link", !.idx = 1, !.links = @ - 1]

\* a rendering operation is called: download(url), or processContactPages
\* with a list of links (part_000:107-118 calls it with the links found)
RenderCall ==
  /\ render.pc = "idle"
  /\ \/ render' = launching("download", 0)
     \/ \E links \in 0..MaxLinks : render' = renderContactPages(links)
  /\ UNCHANGED <<queueVars, chainVars, contactVars, siteVars, poolVars, fetchVars,
                 pageVars, sink, scoring>>

\* lines 27-38 and 384-398: puppeteer.launch resolved
LaunchResolves ==
  /\ render.pc = "launching"
  /\ render' = [render EXCEPT !.pc = "calling", !.browser = "open", !.launches = @ + 1]
  /\ UNCHANGED <<queueVars, chainVars, contactVars, siteVars, poolVars, fetchVars,
                 pageVars, sink, scoring>>

\* puppeteer.launch rejected: no browser was assigned
LaunchThrows ==
  /\ render.pc = "launching"
  /\ \E cause \in ThrowCauses : render' = caught(render, cause)
  /\ UNCHANGED <<queueVars, chainVars, contactVars, siteVars, poolVars, fetchVars,
                 pageVars, sink, scoring>>

\* the awaited call resolved; after the last one download returns its
\* result (lines 87-93) and processContactPages goes on with its loop
CallResolves ==
  /\ render.pc = "calling"
  /\ render' = IF render.idx < Len(callsOf(render))
               THEN [render EXCEPT !.idx = @ + 1]
               ELSE IF render.op = "download"
               THEN finallyClose(render, "returned")
               ELSE nextLink(render)
  /\ UNCHANGED <<queueVars, chainVars, contactVars, siteVars, poolVars, fetchVars,
                 pageVars, sink, scoring>>

\* the awaited call rejected, by a failure of the navigation or of an
\* evaluation or by its timeout; a link of processContactPages has its own
\* catch (lines 436-440)
CallThrows ==
  /\ render.pc = "calling"
  /\ \E cause \in ThrowCauses :
        render' = IF render.op = "contacts" /\ render.phase = "link"
                  THEN nextLink([render EXCEPT !.failureCount = @ + 1, !.cause = cause])
                  ELSE caught(render, cause)
  /\ UNCHANGED <<queueVars, chainVars, contactVars, siteVars, poolVars, fetchVars,
                 pageVars, sink, scoring>>

\* lines 99 and 447: browser.close() resolved and the operation ends as it
\* was about to
CloseResolves ==
  /\ render.pc = "closing"
  /\ render' = [render EXCEPT !.pc = render.result, !.browser = "closed"]
  /\ UNCHANGED <<queueVars, chainVars, contactVars, siteVars, poolVars, fetchVars,
                 pageVars, sink, scoring>>

\* browser.close() rejected: the operation throws that error
CloseThrows ==
  /\ render.pc = "closing"
  /\ render' = [render EXCEPT !.pc = "thrown", !.result = "thrown",
                              !.browser = "closeFailed"]
  /\ UNCHANGED <<queueVars, chainVars, contactVars, siteVars, poolVars, fetchVars,
                 pageVars, sink, scoring>>

(***************************************************************************)
(* Specifications.                                                         *)
(***************************************************************************)
Init ==
  /\ InitQueue /\ InitChain /\ InitContact /\ InitSite /\ InitPool /\ InitFetch
  /\ InitWait /\ InitPass /\ InitSink /\ InitScoring /\ InitRender

\* the pool and the contact pass never read GEMINI_API_KEY; their behaviours
\* are taken with the key set
InitWithKey == Init /\ apiKey

\* the batch queue under callers that may repeat site names
Next == Enqueue \/ TimerFires \/ Attempt \/ NoKey \/ Backoff \/ Drain

Spec == Init /\ [][Next]_vars

\* the batch queue under a burst of callers that fills a batch within the
\* flush delay, followed by late callers
NextSize == EnqueueBurst \/ DueTimer \/ Attempt \/ NoKey \/ Backoff

SpecSize == Init /\ [][NextSize]_vars

\* the batch queue under callers that arrive during a flush
NextLate == EnqueueLate \/ TimerFires \/ Attempt \/ NoKey \/ Backoff

SpecLate == Init /\ [][NextLate]_vars

\* the event loop runs every callback that is due
Fairness ==
  /\ WF_vars(TimerFires) /\ WF_vars(Attempt) /\ WF_vars(NoKey) /\ WF_vars(Backoff)

FairSpec == Spec /\ Fairness

\* one call of execute on the orchestrator's chain
NextChain ==
  ExecuteAny \/ NewChain \/ LoopStep \/ DownloadReturns \/ DownloadThrows \/ Exhausted

SpecChain == Init /\ [][NextChain]_vars

\* calls of findContactLinks on every list of links
NextContact == FindContactLinksCall

SpecContact == Init /\ [][NextContact]_vars

\* one call of processSite with the chain and the batch processor it uses
NextSite ==
  \/ ProcessSiteAny
  \/ ChainStep
  \/ AcquireReturns
  \/ AcquireThrows
  \/ RenderReturns
  \/ RenderThrows
  \/ ContactPagesReturn
  \/ WriteEmptyJson
  \/ WriteTxtReturns
  \/ WriteTxtThrows
  \/ QueueStep
  \/ ExtractionSettles
  \/ WriteJson

SpecSite == Init /\ [][NextSite]_vars

\* calls of fetchHtml on every url, strategy and pattern of request outcomes
NextFetch == FetchHtmlCall

SpecFetch == Init /\ [][NextFetch]_vars

\* one call of waitForPageContent on every sequence of lengths
NextWait ==
  WaitForPageContent \/ InitialRenderElapsed \/ EvaluateResolves \/ SamplePauseElapsed

SpecWait == Init /\ [][NextWait]_vars

\* a timer that is armed fires and a page.evaluate call that was made resolves
FairSpecWait == SpecWait /\ WF_vars(NextWait)

\* one contact pass of stage 2, on every array of links and pattern of failures
NextPass ==
  \/ ContactStage
  \/ DirectDownloadSettles
  \/ SessionOpens
  \/ SessionFails
  \/ RenderedLinkSettles
  \/ SessionCloses
  \/ SessionCloseThrows

SpecPass == InitWithKey /\ [][NextPass]_vars

\* one call of processWithWorkerQueue
NextPool ==
  \/ ProcessWithWorkerQueueAny
  \/ InitFileWritten
  \/ InitFileFails
  \/ SiteReturnsAny
  \/ SiteThrowsAny
  \/ LogErrorDoneAny
  \/ FileOpDoneAny
  \/ PoolReturns


SpecPool == InitWithKey /\ [][NextPool]_vars

\* the pool when the event loop runs every callback that is due, every call
\* of processSite settles and every file operation ends
FairSpecPool == SpecPool /\ WF_vars(NextPool)

\* the file operation queue under workers that enqueue at any time
NextSink == SinkEnqueueAny \/ ReadReturns \/ ReadThrows \/ WriteReturns \/ WriteThrows

SpecSink == InitWithKey /\ [][NextSink]_vars

\* every readFile and writeFile call ends
FairSpecSink ==
  SpecSink /\ WF_vars(ReadReturns \/ ReadThrows \/ WriteReturns \/ WriteThrows)

\* one rendering operation, on every pattern of resolved and rejected calls
NextRender ==
  \/ RenderCall
  \/ LaunchResolves
  \/ LaunchThrows
  \/ CallResolves
  \/ CallThrows
  \/ CloseResolves
  \/ CloseThrows

SpecRender == InitWithKey /\ [][NextRender]_vars

\* processWithWorkerQueue as a function of its parameters
NextPoolAnyList ==
  \/ ProcessWithWorkerQueueAnyList
  \/ InitFileWritten
  \/ InitFileFails
  \/ SiteReturnsAny
  \/ SiteThrowsAny
  \/ LogErrorDoneAny
  \/ FileOpDoneAny
  \/ PoolReturns

SpecPoolAnyList == InitWithKey /\ [][NextPoolAnyList]_vars

\* every call of processSite settles and every file operation ends
FairSpecPoolAnyList == SpecPoolAnyList /\ WF_vars(NextPoolAnyList)

\* runApp end to end
NextRun ==
  \/ ProcessWithWorkerQueueAny
  \/ InitFileWritten
  \/ RunExtractionRequestedAny
  \/ RunReturnsEarly
  \/ RunQueueStep
  \/ RunExtractionSettlesAny
  \/ LogErrorDoneAny
  \/ FileOpDoneAny
  \/ PoolReturns
  \/ RunDrain

SpecRun == InitWithKey /\ [][NextRun]_vars

\* the event loop runs every callback that is due, and every page fetch,
\* browser session, file operation and inference call returns or fails
FairSpecRun == SpecRun /\ WF_vars(NextRun)

\* findMainContent on the documents
NextScoring == FindMainContentCall

SpecScoring == InitWithKey /\ [][NextScoring]_vars

(***************************************************************************)
(* C1.  At most one flush is in flight in every reachable state, whatever  *)
(* the interleaving of queueItem calls, timers, drain calls and backoff    *)
(* waits; a flush is in flight exactly while the processing flag is set.   *)
(***************************************************************************)
C1_AtMostOneFlight ==
  /\ Cardinality(flights) <= 1
  /\ processing <=> flights # {}

\* a timer fired and a drain was refused while a flush was waiting to retry
\* with a request in the queue
C1_Witness ==
  /\ \E f \in flights : f.pc = "backoff"
  /\ Len(queue) > 0
  /\ nDrain > 0
  /\ ev.op = "timer"

(***************************************************************************)
(* C2.  When a flush ends, whether its call succeeded or failed, the       *)
(* promise of every request of its batch is settled (none is pending), and *)
(* no promise is settled by more than one resolve or reject call.          *)
(***************************************************************************)
C2_AllSettledOnce ==
  ev.op = "flushDone" =>
    /\ \A i \in DOMAIN ev.batch : ev.batch[i].req \notin awaiting
    /\ \A i, j \in DOMAIN ev.log : ev.log[i].req = ev.log[j].req => i = j

(***************************************************************************)
(* C3.  Every request that is put in the queue is eventually taken into a  *)
(* flush, with no further queueItem or drain call.                         *)
(***************************************************************************)
InQueue(r) == \E i \in DOMAIN queue : queue[i].req = r

C3_EventuallyDispatched ==
  \A r \in 1..MaxEnqueue : InQueue(r) ~> ~InQueue(r)

(***************************************************************************)
(* C4.  Once batchSize requests were enqueued with no flush started before *)
(* the last of them, exactly one batch has been taken, it holds these      *)
(* requests in order, and the timers armed on the way start no flush.      *)
(***************************************************************************)
BurstReqs(n) == [i \in 1..n |-> i]

ReqSeq(batch) == [i \in DOMAIN batch |-> batch[i].req]

C5_TimeTrigger ==
  (nEnq > 0 /\ nEnq < batchSize /\ ~lateEnqueue /\ timers = 0) =>
    /\ flushCount = 1
    /\ Len(queue) = 0
    /\ \A f \in flights : ReqSeq(f.currentBatch) = BurstReqs(nEnq)
    /\ ev.op = "flushDone" => ReqSeq(ev.batch) = BurstReqs(nEnq)

\* three requests, three timers: the last timer to fire starts nothing
C5_Witness ==
  /\ nEnq = 3
  /\ ~lateEnqueue
  /\ nDrain = 0
  /\ timers = 0
  /\ flushCount = 1
  /\ ev.op = "timer"
  /\ ~ev.started

(***************************************************************************)
(* C6.  When the inference call of a flush succeeds, every request of the  *)
(* batch is resolved by that flush: with the data of its site name where   *)
(* the response has that key, with the empty result where it has not.      *)
(***************************************************************************)
C6_ResolvedFromResponse ==
  (ev.op = "flushDone" /\ ev.ok) =>
    \A i \in DOMAIN ev.batch :
      \E j \in DOMAIN ev.log :
        /\ ev.log[j].req = ev.batch[i].req
        /\ ev.log[j].state = "fulfilled"
        /\ ev.log[j].value =
             IF ev.batch[i].siteName \in ev.keys
             THEN DataOf(ev.batch[i].siteName, ev.retryCount)
             ELSE EmptyResult

(***************************************************************************)
(* C7.  A flush makes at most 3 attempts; it retries only after an error   *)
(* that isRetryableError classifies as transient; it waits 1000 ms before  *)
(* the first retry and 2000 ms before the second; and when a retry         *)
(* succeeds the flush raises no error and resolves with that attempt's     *)
(* data.                                                                   *)
(***************************************************************************)
Transient == {ErrFetchFailed, ErrRateLimit, ErrTimeout}

C7_RetryPolicy ==
  /\ \A e \in AttemptErrors : isRetryableError(e) <=> e \in Transient
  /\ \A f \in flights :
       /\ f.fetches <= 3
       /\ f.retryCount <= 2
       /\ f.pc = "backoff" =>
            /\ f.fetches = f.retryCount
            /\ f.retryCount = 1 => f.delayMs = 1000
            /\ f.retryCount = 2 => f.delayMs = 2000
       /\ (f.pc = "fetch" /\ apiKey) => f.fetches = f.retryCount + 1
  /\ ev.op = "attemptFailed" => ev.error \in Transient
  /\ ev.op = "flushDone" =>
       /\ ev.fetches <= 3
       /\ (~ev.ok /\ apiKey /\ ev.error.cause \notin Transient) =>
            ev.error.retryCount + 1 = ev.fetches
       /\ (~ev.ok /\ apiKey /\ ev.error.cause \in Transient) => ev.fetches = 3
       /\ (ev.ok /\ ev.retryCount > 0) =>
            \A j \in DOMAIN ev.log :
              /\ ev.log[j].state = "fulfilled"
              /\ ev.log[j].value # EmptyResult =>
                   ev.log[j].value.phone_numbers[1].attempt = ev.retryCount

\* a flush succeeded at its third attempt and resolved a request with data
C7_Witness ==
  /\ ev.op = "flushDone"
  /\ ev.ok
  /\ ev.fetches = 3
  /\ \E j \in DOMAIN ev.log : ev.log[j].value # EmptyResult

(***************************************************************************)
(* C8.  When the inference call of a flush fails for good, every request   *)
(* of the batch is rejected with the one error of the flush, and the flush *)
(* resolves nothing and rejects no request outside its batch.              *)
(***************************************************************************)
C8_AllRejected ==
  (ev.op = "flushDone" /\ ~ev.ok) =>
    /\ \A i \in DOMAIN ev.batch :
         \E j \in DOMAIN ev.log :
           /\ ev.log[j].req = ev.batch[i].req
           /\ ev.log[j].state = "rejected"
           /\ ev.log[j].value = ev.error
    /\ \A j \in DOMAIN ev.log :
         /\ ev.log[j].state = "rejected"
         /\ ev.log[j].req \in ReqsOf(ev.batch)

(***************************************************************************)
(* C9.  When a call of processRemainingItems has returned, every request   *)
(* that was in the queue when it was called has been taken into a flush    *)
(* and its promise is settled.                                             *)
(***************************************************************************)
C9_DrainSettlesPending ==
  /\ (ev.op = "drain" /\ ev.returned) =>
       \A i \in DOMAIN ev.snapshot :
         ~InQueue(ev.snapshot[i].req) /\ ev.snapshot[i].req \notin awaiting
  /\ (ev.op = "flushDone" /\ ev.drain) =>
       \A i \in DOMAIN ev.batch :
         ~InQueue(ev.batch[i].req) /\ ev.batch[i].req \notin awaiting

(***************************************************************************)
(* C10.  execute calls the download of a strategy only where isApplicable  *)
(* of that strategy is true of the url and of the error the chain holds    *)
(* then: none before the first failed attempt, after it the error of the   *)
(* most recent failed attempt.                                             *)
(***************************************************************************)
C10_OnlyApplicableInvoked ==
  \A i \in DOMAIN invoked :
    /\ isApplicable(invoked[i].strategy, chainUrl, invoked[i].previousError)
    /\ invoked[i].previousError = IF i = 1 THEN Null ELSE invoked[i - 1].error
    /\ i < Len(invoked) => invoked[i].outcome = "failed"

\* execute ended after it had passed over one strategy and tried another
C10_Witness ==
  /\ chainPc = "thrown"
  /\ Len(invoked) = 1
  /\ invoked[1].error = ConversionError
  /\ \E k \in DOMAIN strategies :
        ~isApplicable(strategies[k], chainUrl, lastError)

(***************************************************************************)
(* C11.  Once the download of a strategy succeeds, execute returns that    *)
(* result and calls the download of no later strategy; when Local HTTPS    *)
(* succeeds it is the only strategy whose download was called.             *)
(***************************************************************************)
C11_ShortCircuit ==
  /\ \A i \in DOMAIN invoked :
       invoked[i].outcome = "ok" =>
         /\ i = Len(invoked)
         /\ chainPc = "returned"
         /\ chainOut.kind = "result"
         /\ chainOut.status.strategy = invoked[i].strategy
         /\ chainOut.result \in DownloadResults(invoked[i].strategy, chainUrl)
  /\ chainPc = "returned" =>
       Len(invoked) > 0 /\ invoked[Len(invoked)].outcome = "ok"
  /\ (Len(invoked) > 0 /\ invoked[1].outcome = "ok") => Len(invoked) = 1

\* the second strategy of the orchestrator's chain succeeded after the first
\* had failed, and execute returned without calling the third
C11_Witness ==
  /\ chainStrategies = strategies
  /\ chainPc = "returned"
  /\ Len(invoked) = 2
  /\ invoked[2].strategy = "Local HTTP"
  /\ chainOut.status.strategy = "Local HTTP"

(***************************************************************************)
(* C12.  The chain of the orchestrator holds the four strategies Local     *)
(* HTTPS, Local HTTP, External HTTPS, External HTTP in that order: the     *)
(* strategies attempted are a subsequence of that order, and once External *)
(* HTTPS has failed External HTTP is attempted before execute ends.        *)
(***************************************************************************)
PriorityOrder == <<"Local HTTPS", "Local HTTP", "External HTTPS", "External HTTP">>

Rank(strategy) == CHOOSE k \in DOMAIN PriorityOrder : PriorityOrder[k] = strategy

C12_FourStrategiesInOrder ==
  chainStrategies = strategies =>
    /\ \A i, j \in DOMAIN invoked :
         i < j => Rank(invoked[i].strategy) < Rank(invoked[j].strategy)
    /\ (/\ chainPc \in {"returned", "thrown"}
        /\ \E i \in DOMAIN invoked :
             /\ invoked[i].strategy = "External HTTPS"
             /\ invoked[i].outcome = "failed")
         => \E j \in DOMAIN invoked : invoked[j].strategy = "External HTTP"

(***************************************************************************)
(* C13.  When every strategy was passed over or failed, execute throws and *)
(* returns no result; the error thrown is the error of the last download   *)
(* that was called, or the generic error of the chain when no download     *)
(* was called.                                                             *)
(***************************************************************************)
C13_Exhaustion ==
  /\ chainPc = "thrown" =>
       /\ chainOut.kind = "error"
       /\ \A i \in DOMAIN invoked : invoked[i].outcome = "failed"
       /\ chainOut.error = IF Len(invoked) > 0
                           THEN invoked[Len(invoked)].error
                           ELSE AllFailedError
  /\ (chainPc = "loop" /\ chainIdx > Len(chainStrategies)) =>
       /\ chainOut.kind = "none"
       /\ \A i \in DOMAIN invoked : invoked[i].outcome = "failed"
  /\ chainOut.kind = "result" =>
       \E i \in DOMAIN invoked : invoked[i].outcome = "ok"

\* the three strategies of the orchestrator's chain failed one after the other
C13_Witness ==
  /\ chainPc = "thrown"
  /\ Len(invoked) = 3
  /\ chainOut.error = invoked[3].error
  /\ chainOut.error # invoked[2].error

\* a chain threw the generic error without having called any download
C13_GenericReached ==
  /\ chainPc = "thrown"
  /\ Len(invoked) = 0
  /\ chainOut.error = AllFailedError
  /\ Len(chainStrategies) > 0

(***************************************************************************)
(* C16.  findContactLinks(links, mainUrl) returns exactly the links that   *)
(* contain, whatever the case of their letters, one of the words contact,  *)
(* imprint, impressum, about and that differ from mainUrl, in the order    *)
(* they have in links; it returns the empty list for an empty list and     *)
(* when no link qualifies.                                                 *)
(***************************************************************************)
Keywords ==
  {<<"c", "o", "n", "t", "a", "c", "t">>,
   <<"i", "m", "p", "r", "i", "n", "t">>,
   <<"i", "m", "p", "r", "e", "s", "s", "u", "m">>,
   <<"a", "b", "o", "u", "t">>}

ContainsIgnoringCase(link, word) ==
  \E i \in 1..Len(link) :
    /\ i + Len(word) - 1 <= Len(link)
    /\ \A j \in 1..Len(word) : lowerChar(link[i + j - 1]) = lowerChar(word[j])

Qualifies(link) ==
  /\ \E word \in Keywords : ContainsIgnoringCase(link, word)
  /\ link # cfMain

C16_ContactLinks ==
  cfPc = "returned" =>
    /\ cfOut = SelectSeq(cfLinks, Qualifies)
    /\ cfLinks = <<>> => cfOut = <<>>
    /\ (/\ cfLinks = <<<<"a", "/", "c", "o", "n", "t", "a", "c", "t">>, <<"a", "/">>, <<"a", "/", "A", "B", "O", "U", "T">>>>
        /\ cfMain = <<"a", "/">>)
         => cfOut = <<<<"a", "/", "c", "o", "n", "t", "a", "c", "t">>, <<"a", "/", "A", "B", "O", "U", "T">>>>

\* the call on [a/contact, a/, a/ABOUT] with main page a/
C16_Witness ==
  /\ cfPc = "returned"
  /\ cfLinks = <<<<"a", "/", "c", "o", "n", "t", "a", "c", "t">>, <<"a", "/">>, <<"a", "/", "A", "B", "O", "U", "T">>>>
  /\ cfMain = <<"a", "/">>
  /\ Len(cfOut) = 2

(***************************************************************************)
(* C14.  After a successful acquisition the headless download is called    *)
(* exactly when the size of the acquired result is below 1500 bytes: it is *)
(* called for 1200 and for 1499, not for 1500, and never after a failed    *)
(* acquisition.                                                            *)
(***************************************************************************)
C14_SpaDetection ==
  /\ (site.pc \notin {"idle", "acquiring"} /\ chainPc = "returned") =>
       /\ site.rendering # "none" <=> chainOut.result.size < 1500
       /\ chainOut.result.size = 1200 => site.rendering # "none"
       /\ chainOut.result.size = 1499 => site.rendering # "none"
       /\ chainOut.result.size = 1500 => site.rendering = "none"
  /\ chainPc # "returned" => site.rendering = "none"

\* a result of 1499 bytes was acquired and the headless download is awaited
C14_Witness ==
  /\ site.pc = "rendering"
  /\ chainOut.result.size = 1499
  /\ site.rendering = "called"

\* a result of 1500 bytes was acquired and stage 2 began without rendering
C14_BoundaryReached ==
  /\ site.pc = "contactPages"
  /\ chainOut.result.size = 1500
  /\ site.rendering = "none"

(***************************************************************************)
(* C15.  When the headless download fails, processSite keeps the content,  *)
(* links, size and effective url of the result execute returned, does not  *)
(* handle the site as a failed download, looks for contact links and goes  *)
(* on to the extraction stage.                                             *)
(***************************************************************************)
C15_RenderingFailureKept ==
  site.rendering = "failed" =>
    /\ site.mainContent = chainOut.result.content
    /\ site.links = chainOut.result.links
    /\ site.mainSize = chainOut.result.size
    /\ site.effectiveUrl = chainOut.result.effectiveUrl
    /\ site.downloadSuccess
    /\ site.pc \in {"contactPages", "writeTxt", "extracting", "writeJson", "returned"}
    /\ site.located <=> Len(chainOut.result.links) > 0
    /\ site.pc = "returned" => site.out.errorType \in {"none", "llm"}

\* after a failed headless download the contact pages were fetched and the
\* extraction request is awaited
C15_Witness ==
  /\ site.rendering = "failed"
  /\ site.pc = "extracting"
  /\ Len(site.contactLinks) > 0
  /\ site.req = nEnq
  /\ nEnq = 1

(***************************************************************************)
(* C17.  When execute fails for a site, processSite enqueues no extraction *)
(* request, records an empty ExtractedData and returns a result classified *)
(* as download.                                                            *)
(***************************************************************************)
C17_DownloadFailure ==
  chainPc = "thrown" =>
    /\ nEnq = 0
    /\ site.pc = "returned" =>
         /\ site.out.errorType = "download"
         /\ site.out.extractedData = EmptyResult

(***************************************************************************)
(* C17, amended.  When execute fails for a site, processSite enqueues no   *)
(* extraction request and goes to the write of an empty ExtractedData; it  *)
(* returns that empty data classified as download when the write succeeds, *)
(* and the write's error classified as unexpected when the write fails.    *)
(***************************************************************************)
C17_DownloadFailureUnlessWriteFails ==
  chainPc = "thrown" =>
    /\ nEnq = 0
    /\ site.req = 0
    /\ site.pc \in {"acquiring", "writeEmptyJson", "returned"}
    /\ site.pc # "acquiring" =>
         /\ ~site.downloadSuccess
         /\ site.llmProcessing = "Skipped (download failed)"
    /\ site.pc = "returned" =>
         \/ /\ site.out.errorType = "download"
            /\ site.out.extractedData = EmptyResult
            /\ site.out.success
         \/ /\ site.out.errorType = "unexpected"
            /\ site.out.error = WriteError
            /\ ~site.out.success

\* execute threw and processSite returned the empty data classified as download
C17_Witness ==
  /\ chainPc = "thrown"
  /\ site.pc = "returned"
  /\ site.out.errorType = "download"
  /\ nEnq = 0

(***************************************************************************)
(* C18.  When the acquisition succeeded and the batch processor rejects    *)
(* the extraction request, processSite returns a record with success =     *)
(* false, the site data filled so far, the error of the rejection and the  *)
(* classification llm, never download or unexpected.                       *)
(***************************************************************************)
C18_ExtractionFailure ==
  (/\ site.pc = "returned"
   /\ site.req > 0
   /\ ev.op = "flushDone"
   /\ \E st \in Settlement(site.req) : st.state = "rejected")
    =>
    /\ site.downloadSuccess
    /\ ~site.out.success
    /\ site.out.errorType = "llm"
    /\ site.out.error = ev.error
    /\ \A st \in Settlement(site.req) : st.value = site.out.error
    /\ site.size = site.mainSize + site.contactSize
    /\ site.llmProcessing = "Error"

\* the flush of the site's request failed after its retries and processSite
\* returned the failure
C18_Witness ==
  /\ site.pc = "returned"
  /\ site.req = 1
  /\ ev.op = "flushDone"
  /\ ~ev.ok
  /\ ev.fetches = 3
  /\ site.out.errorType = "llm"
  /\ site.out.error = ev.error
  /\ Len(site.contactLinks) > 0

(***************************************************************************)
(* C19.  At every moment the number of processSite calls in progress is at *)
(* most concurrencyLimit and at most min(concurrencyLimit, number of       *)
(* sites), the sites held by workers are no more than the active workers,  *)
(* and a site is taken from the queue only by the start loop or in the     *)
(* step in which a worker ends the handling of its previous site.          *)
(***************************************************************************)
InProgress == {i \in DOMAIN pipeline : pipeline[i].pc = "processSite"}

Held == {i \in DOMAIN pipeline : pipeline[i].pc \notin {"queued", "done"}}

C19_BoundedPool ==
  /\ [](/\ Cardinality(InProgress) <= concurrencyLimit
        /\ Cardinality(InProgress) <= Min({concurrencyLimit, Len(poolSites)})
        /\ Cardinality(Held) <= activeWorkers
        /\ activeWorkers <= Min({concurrencyLimit, Len(poolSites)}))
  /\ [][\A i \in DOMAIN pipeline :
          (pipeline[i].pc = "queued" /\ pipeline'[i].pc = "processSite") =>
             \/ poolPc = "initFile"
             \/ \E j \in DOMAIN pipeline :
                  pipeline[j].pc = "fileOp" /\ pipeline'[j].pc = "done"]_vars

\* two workers run at the limit of two after one of them ended a site and
\* took the third
C19_Witness ==
  /\ poolPc = "running"
  /\ concurrencyLimit = 2
  /\ Cardinality(InProgress) = 2
  /\ Len(taken) = 3
  /\ \E j \in DOMAIN pipeline : pipeline[j].pc = "done"

(***************************************************************************)
(* C20.  The sites are shifted from the queue one by one in the order of   *)
(* the input list, each position once; a worker whose site ended, whatever *)
(* the outcome (success, download, llm, unexpected, or processSite         *)
(* throwing), takes the head of the queue in the same step when the queue  *)
(* is not empty; and once the pool runs, every site is eventually taken    *)
(* and handled to its end.                                                 *)
(***************************************************************************)
C20_PoolProgress ==
  /\ [](poolPc \in {"running", "returned"} =>
          /\ taken \o siteQueue = poolSites
          /\ completed = Len(taken)
          /\ \A i \in DOMAIN pipeline : pipeline[i].pc # "queued" <=> i <= Len(taken))
  /\ [][\A i \in DOMAIN pipeline :
          (pipeline[i].pc = "fileOp" /\ pipeline'[i].pc = "done" /\ siteQueue # <<>>) =>
             /\ taken' = Append(taken, Head(siteQueue))
             /\ siteQueue' = Tail(siteQueue)
             /\ pipeline'[Len(taken) + 1].pc = "processSite"]_vars
  /\ (poolPc = "running") ~>
        (/\ taken = poolSites
         /\ \A i \in DOMAIN pipeline : pipeline[i].pc = "done")

\* with one worker, one of the first two sites ended by processSite throwing,
\* the other as a failed download, and the worker runs the third
C20_Witness ==
  /\ concurrencyLimit = 1
  /\ Len(poolSites) = 3
  /\ pipeline[1].pc = "done"
  /\ pipeline[2].pc = "done"
  /\ pipeline[3].pc = "processSite"
  /\ counts.unexpectedErrorCount = 1
  /\ counts.downloadErrorCount = 1
  /\ counts.errorCount = 1
  /\ taken = poolSites

(***************************************************************************)
(* C21.  Every request given to queueItem is taken into the batch of       *)
(* exactly one flush: a flush takes the whole queue and leaves it empty, a *)
(* request that arrives while a flush runs stays in the queue for a later  *)
(* flush, no request is in two batches or leaves the queue without a       *)
(* batch, and every request is in a batch in the end.                      *)
(***************************************************************************)
C21_AtMostOneBatch ==
  /\ DOMAIN sent = 1..nEnq
  /\ \A r \in DOMAIN sent :
        /\ sent[r] <= 1
        /\ sent[r] = 0 <=> InQueue(r)
  /\ \A f \in flights : \A i \in DOMAIN f.currentBatch :
        /\ sent[f.currentBatch[i].req] = 1
        /\ ~InQueue(f.currentBatch[i].req)

C21_TakesWholeQueue ==
  flushCount' # flushCount =>
    /\ flushCount' = flushCount + 1
    /\ queue' = <<>>
    /\ \E f \in flights' \ flights :
          /\ flights' \ flights = {f}
          /\ ReqsOf(f.currentBatch) = {r \in DOMAIN sent' : sent'[r] = 1 /\ (r \notin DOMAIN sent \/ sent[r] = 0)}
          /\ ReqsOf(queue) \subseteq ReqsOf(f.currentBatch)

C21_ExactlyOneFlush ==
  /\ []C21_AtMostOneBatch
  /\ [][C21_TakesWholeQueue]_vars
  /\ \A r \in 1..MaxEnqueue : (r \in DOMAIN sent) ~> ~InQueue(r) /\ r \in DOMAIN sent

(***************************************************************************)
(* C24.  When the first request of fetchHtml fails with a retryable error  *)
(* the strategy requests the two hostname variants of the url (with and    *)
(* without a leading "www."), each once and in that order, stops at the    *)
(* first that answers and fails only after both failed; when the first     *)
(* error is not retryable it requests no variant and fails at once.        *)
(***************************************************************************)
\* the errors the direct strategies retry: timeout, name resolution,
\* connection refused and a 403 response
RetryableFirst == {GotTimeout, GotNotFound, GotRefused, GotForbidden}

\* the requests made after the first one
Retried == Tail(fetch.out.requests)

\* the requests fetchHtml makes after a retryable first error when it is to
\* try the urls variants in order, given how each request ends
ExpectedRetries(variants) ==
  IF \E i \in DOMAIN variants : fetch.outcomes[i] = GotOk
  THEN SubSeq(variants, 1,
              CHOOSE i \in DOMAIN variants :
                 /\ fetch.outcomes[i] = GotOk
                 /\ \A j \in 1..(i - 1) : fetch.outcomes[j] # GotOk)
  ELSE variants

\* the contact link under the scheme Local HTTP gives it
HttpContactLink ==
  <<"h", "t", "t", "p", ":", "/", "/", "a", ".", "e", "x", "a", "m", "p", "l", "e", "/", "c", "o", "n", "t", "a", "c", "t">>

\* the url with the hostname toggled between its www and its bare form, for
\* the urls of the model
WwwForm(url) ==
  CASE url = chars("https://a.example") ->
         <<"h", "t", "t", "p", "s", ":", "/", "/", "w", "w", "w", ".", "a", ".", "e", "x", "a", "m", "p", "l", "e", "/">>
    [] url = chars("http://a.example") ->
         <<"h", "t", "t", "p", ":", "/", "/", "w", "w", "w", ".", "a", ".", "e", "x", "a", "m", "p", "l", "e", "/">>
    [] url = chars("https://b.example") ->
         <<"h", "t", "t", "p", "s", ":", "/", "/", "w", "w", "w", ".", "b", ".", "e", "x", "a", "m", "p", "l", "e", "/">>
    [] url = chars("http://b.example") ->
         <<"h", "t", "t", "p", ":", "/", "/", "w", "w", "w", ".", "b", ".", "e", "x", "a", "m", "p", "l", "e", "/">>
    [] url = chars("https://www.c.example") -> chars("https://www.c.example") \o <<"/">>
    [] url = chars("http://www.c.example") -> chars("http://www.c.example") \o <<"/">>
    [] url = chars("https://a.example/contact") ->
         <<"h", "t", "t", "p", "s", ":", "/", "/", "w", "w", "w", ".", "a", ".", "e", "x", "a", "m", "p", "l", "e", "/", "c", "o", "n", "t", "a", "c", "t">>
    [] url = HttpContactLink ->
         <<"h", "t", "t", "p", ":", "/", "/", "w", "w", "w", ".", "a", ".", "e", "x", "a", "m", "p", "l", "e", "/", "c", "o", "n", "t", "a", "c", "t">>

BareForm(url) ==
  CASE url = chars("https://a.example") -> chars("https://a.example") \o <<"/">>
    [] url = chars("http://a.example") -> chars("http://a.example") \o <<"/">>
    [] url = chars("https://b.example") -> chars("https://b.example") \o <<"/">>
    [] url = chars("http://b.example") -> chars("http://b.example") \o <<"/">>
    [] url = chars("https://www.c.example") ->
         <<"h", "t", "t", "p", "s", ":", "/", "/", "c", ".", "e", "x", "a", "m", "p", "l", "e", "/">>
    [] url = chars("http://www.c.example") ->
         <<"h", "t", "t", "p", ":", "/", "/", "c", ".", "e", "x", "a", "m", "p", "l", "e", "/">>
    [] url = chars("https://a.example/contact") -> chars("https://a.example/contact")
    [] url = HttpContactLink -> HttpContactLink

TwoVariants(url) == <<WwwForm(url), BareForm(url)>>

\* the variants that differ from the url as it was given
OtherVariants(url) ==
  LET differs(u) == u # url IN SelectSeq(TwoVariants(url), differs)

C24_TwoVariantsEachOnce ==
  (fetch.pc = "returned" /\ fetch.first # GotOk) =>
     IF fetch.first \in RetryableFirst
     THEN /\ Retried = ExpectedRetries(TwoVariants(fetch.url))
          /\ fetch.out.ok <=> \E i \in 1..2 : fetch.outcomes[i] = GotOk
     ELSE /\ Retried = <<>>
          /\ ~fetch.out.ok

(***************************************************************************)
(* C24, amended.  When the first request fails with a retryable error the  *)
(* strategy generates the two hostname variants, drops the one that equals *)
(* the url as it was given, requests each remaining variant once, in the   *)
(* order www then bare, stops at the first that answers and fails only     *)
(* after all of them failed: two variants for a url that is not in its     *)
(* serialised form (no path), one for a url that is; when the first error  *)
(* is not retryable it requests no variant and fails at once.              *)
(***************************************************************************)
C24_OtherVariantsEachOnce ==
  (fetch.pc = "returned" /\ fetch.first # GotOk) =>
     IF fetch.first \in RetryableFirst
     THEN /\ Retried = ExpectedRetries(OtherVariants(fetch.url))
          /\ fetch.out.ok <=>
               \E i \in DOMAIN OtherVariants(fetch.url) : fetch.outcomes[i] = GotOk
          /\ fetch.out.ok => fetch.out.effectiveUrl = Retried[Len(Retried)]
          /\ Len(OtherVariants(fetch.url)) =
               IF fetch.url = chars("https://a.example/contact")
                  \/ fetch.url = HttpContactLink THEN 1 ELSE 2
     ELSE /\ Retried = <<>>
          /\ ~fetch.out.ok

\* a contact link timed out, its www variant failed too, and fetchHtml failed
\* after these two requests
C24_Witness ==
  /\ fetch.pc = "returned"
  /\ fetch.url = chars("https://a.example/contact")
  /\ fetch.first = GotTimeout
  /\ fetch.outcomes[1] = GotMissing
  /\ ~fetch.out.ok
  /\ Len(fetch.out.requests) = 2

\* a site url was refused, its www variant too, and its bare variant answered
C24_BothTried ==
  /\ fetch.pc = "returned"
  /\ fetch.url = chars("http://b.example")
  /\ fetch.first = GotRefused
  /\ fetch.out.ok
  /\ Len(fetch.out.requests) = 3

(***************************************************************************)
(* C22.  Local HTTP is attempted only after a Local HTTPS attempt that     *)
(* failed on a transport failure (timeout, connection refused, name        *)
(* resolution, or a 403 response); after a Local HTTPS failure of another  *)
(* kind, such as a 404 or 500 response, Local HTTP is not attempted.       *)
(***************************************************************************)
TransportFailures == {GotTimeout, GotNotFound, GotRefused, GotForbidden}

C22_InsecureOnlyAfterTransportFailure ==
  \A i \in DOMAIN invoked :
     invoked[i].strategy = "Local HTTP" =>
        /\ i > 1
        /\ invoked[i - 1].strategy = "Local HTTPS"
        /\ invoked[i - 1].outcome = "failed"
        /\ invoked[i - 1].cause \in TransportFailures

(***************************************************************************)
(* C23.  External HTTPS is attempted for a url only after Local HTTPS and  *)
(* then Local HTTP were attempted for that url and both failed with the    *)
(* error fetchHtml throws once its own requests, variants included, have   *)
(* failed.                                                                 *)
(***************************************************************************)
C23_RemoteAfterBothDirect ==
  \A i \in DOMAIN invoked :
     invoked[i].strategy \in {"External HTTPS", "External HTTP"} =>
        /\ i >= 3
        /\ invoked[1].strategy = "Local HTTPS"
        /\ invoked[1].outcome = "failed"
        /\ invoked[1].error = HttpsFetchError(chainUrl)
        /\ invoked[1].cause \in GotErrors
        /\ invoked[2].strategy = "Local HTTP"
        /\ invoked[2].outcome = "failed"
        /\ invoked[2].error = HttpFetchError(chainUrl)
        /\ invoked[2].cause \in GotErrors

\* External HTTPS is awaited after both direct strategies failed
C23_Witness ==
  /\ chainPc = "download"
  /\ Len(invoked) = 3
  /\ invoked[3].strategy = "External HTTPS"
  /\ invoked[3].outcome = "pending"
  /\ invoked[1].cause = GotMissing
  /\ invoked[2].cause = GotTimeout

(***************************************************************************)
(* C25: the wait of the rendering path.                                    *)
(***************************************************************************)
Sampling == wait.pc \in {"evaluating", "pausing", "returned"}

\* the number of checks at the end of samples that were stable in a row
RECURSIVE stableRun(_, _)
stableRun(samples, n) ==
  IF n < 2 \/ abs(samples[n] - samples[n - 1]) >= stableDifference THEN 0
  ELSE 1 + stableRun(samples, n - 1)

\* what the claim states of a call, the samples being compared as given by
\* before(recent): the kept samples, with whatever stands before the first
WaitContract(samples) ==
  /\ Sampling => wait.startTime = initialRenderDelay
  /\ wait.pc = "evaluating" /\ wait.samples >= 1 =>
        wait.now = wait.resolvedAt + samplePause
  /\ wait.pc = "evaluating" => wait.now - wait.startTime < maxWaitTime
  /\ wait.pc = "pausing" =>
        /\ stableRun(samples, Len(samples)) < stableNeeded
        /\ wait.stableCount = stableRun(samples, Len(samples))
  /\ wait.pc = "returned" =>
        \/ /\ wait.stoppedBy = "stable"
           /\ stableRun(samples, Len(samples)) = stableNeeded
        \/ /\ wait.stoppedBy = "time"
           /\ wait.now - wait.startTime >= maxWaitTime
           /\ stableRun(samples, Len(samples)) < stableNeeded

\* C25 as stated: sampling starts 1000 ms after the call, a sample starts
\* 500 ms after the one before it was taken, the loop stops as soon as three
\* samples in a row each differ from the sample before them by fewer than 50
\* (a difference of 50 or more resets the count), no sample starts once
\* 5000 ms of sampling have elapsed, and the call returns.
C25_StabilizationWait ==
  /\ [](WaitContract(wait.recent))
  /\ (wait.pc # "idle") ~> (wait.pc = "returned")

\* C25, amended: the same, the first sample being compared with a length of 0.
C25_StabilizationWaitFromZero ==
  /\ [](WaitContract(IF wait.samples <= RecentKept - 1
                     THEN <<0>> \o wait.recent ELSE wait.recent))
  /\ (wait.pc # "idle") ~> (wait.pc = "returned")

\* a call that stopped on three stable samples after a reset of the count
C25_Witness ==
  /\ wait.pc = "returned" /\ wait.stoppedBy = "stable"
  /\ wait.samples > stableNeeded + 1

\* a call that the time limit ended, at its tenth sample
C25_TimeLimitReached ==
  /\ wait.pc = "returned" /\ wait.stoppedBy = "time"
  /\ wait.samples = maxWaitTime \div samplePause

\* a call that stopped at its third sample
C25_StoppedAtThird ==
  /\ wait.pc = "returned" /\ wait.stoppedBy = "stable"
  /\ wait.samples = stableNeeded

(***************************************************************************)
(* C26, C27: the second acquisition pass.                                  *)
(***************************************************************************)
Attempts == DOMAIN pass.attempts

Rendered(k) == pass.attempts[k].via = "Headless Browser"

\* attempt k is a step of a run of the orchestrator's chain on its link: by
\* the first strategy, or by the strategy after the one that has just failed
ChainStepOnLink(k) ==
  \E j \in DOMAIN strategies :
     /\ pass.attempts[k].via = strategies[j]
     /\ \/ j = 1
        \/ /\ k > 1
           /\ pass.attempts[k - 1].pos = pass.attempts[k].pos
           /\ pass.attempts[k - 1].via = strategies[j - 1]
           /\ pass.attempts[k - 1].outcome # "ok"
     /\ pass.attempts[k].outcome = "fetch failed" /\ j < Len(strategies) =>
           /\ k + 1 \in Attempts
           /\ pass.attempts[k + 1].pos = pass.attempts[k].pos
           /\ pass.attempts[k + 1].via = strategies[j + 1]

\* C26 as stated: a contact link is fetched through the rendering path iff
\* the size of the main page was below 1500, and otherwise by a run of the
\* acquisition chain on it, with the fallback from strategy to strategy.
C26_RenderingOrChain ==
  pass.pc = "returned" =>
     \A k \in Attempts :
        /\ Rendered(k) <=> pass.mainSize < 1500
        /\ ~Rendered(k) => ChainStepOnLink(k)

\* C26, amended: a contact link is fetched through the rendering path iff the
\* size of the main page was below 1500, and otherwise once, by the direct
\* strategy of the protocol of the main page's effective url, with no
\* fallback to another strategy.
C26_RenderingOrDirectStrategy ==
  pass.pc # "idle" =>
     \A k \in Attempts :
        /\ Rendered(k) <=> pass.mainSize < 1500
        /\ ~Rendered(k) =>
              /\ pass.attempts[k].via =
                    IF pass.protocol = "HTTPS" THEN "Local HTTPS" ELSE "Local HTTP"
              /\ \A m \in Attempts : pass.attempts[m].pos = pass.attempts[k].pos => m = k

\* a pass over HTTP in which a link failed in fetchHtml and another was fetched
C26_Witness ==
  /\ pass.pc = "returned" /\ ~pass.isSpa /\ pass.protocol = "HTTP"
  /\ \E k, m \in Attempts :
        /\ pass.attempts[k].outcome = "fetch failed"
        /\ pass.attempts[m].outcome = "ok"

\* a pass through the rendering path that fetched a link
C26_RenderedReached ==
  /\ pass.pc = "returned" /\ pass.mainSize < 1500
  /\ \E k \in Attempts : Rendered(k) /\ pass.attempts[k].outcome = "ok"

\* position i of the links gives content: its download succeeds and the link
\* was not fetched at an earlier position
Contributes(i) ==
  /\ pass.outcomes[i] = "ok"
  /\ \A j \in 1..(i - 1) :
        pass.contactLinks[j] = pass.contactLinks[i] => pass.outcomes[j] # "ok"

\* the contents of the first i links that give content, each after its header
RECURSIVE ExpectedContent(_)
ExpectedContent(i) ==
  IF i = 0 THEN << >>
  ELSE ExpectedContent(i - 1) \o
       (IF Contributes(i)
        THEN fetchedContent(pass.contactLinks[i], contentOf(pass.contactLinks[i]))
        ELSE << >>)

\* every link was attempted, unless it had been fetched at an earlier position,
\* and the content returned is that of the links fetched, in their order
IsolatedAndOrdered ==
  /\ \A i \in DOMAIN pass.contactLinks :
        \/ \E k \in Attempts : pass.attempts[k].pos = i
        \/ \E j \in 1..(i - 1) :
              pass.contactLinks[j] = pass.contactLinks[i] /\ pass.outcomes[j] = "ok"
  /\ pass.out.contactContent = ExpectedContent(Len(pass.contactLinks))

C27_SessionFailed ==
  /\ pass.pc = "returned" /\ pass.session = "failed"
  /\ \E i \in DOMAIN pass.contactLinks : pass.outcomes[i] = "ok"

(***************************************************************************)
(* C28: the classification of the record processSite returns.              *)
(***************************************************************************)
\* where the try of lines 91-165 and the try of lines 306-346 catch
AcquisitionCheckpoint == {"acquisition", "rendering"}

ExtractionCheckpoint == {"writeTxt", "extraction", "writeJson"}

\* C28: a call of processSite ends by returning a record, whose classification
\* is one of none, download, llm and unexpected; the record is classified
\* unexpected exactly when the last exception of the call was raised outside
\* the try of the acquisition and the try of the extraction, download only
\* after the acquisition threw and llm only after an exception in the try of
\* the extraction.
C28_Classification ==
  site.pc = "returned" =>
    /\ site.out.kind = "returned"
    /\ site.out.errorType \in {"none", "download", "llm", "unexpected"}
    /\ site.out.errorType = "unexpected" <=>
          site.raised \notin AcquisitionCheckpoint \cup ExtractionCheckpoint \cup {"none"}
    /\ site.out.errorType = "download" <=> site.raised = "acquisition"
    /\ site.out.errorType = "llm" <=> site.raised \in ExtractionCheckpoint
    /\ site.out.errorType \in {"llm", "unexpected"} =>
          ~site.out.success /\ site.out.error # Null

\* the write of the empty record threw and the record returned is unexpected
C28_Witness ==
  /\ site.pc = "returned"
  /\ site.raised = "emptyJson"
  /\ site.out.errorType = "unexpected"

(***************************************************************************)
(* C29: the order of the stages of one call of processSite.                *)
(***************************************************************************)
\* the stage a call is in; LocatingContacts is the synchronous call of
\* findContactLinks, made in the step that sets located
StageOf(l) ==
  CASE l.pc = "idle" -> "Pending"
    [] l.pc = "acquiring" -> "Acquiring"
    [] l.pc = "rendering" -> "RenderingFallback"
    [] l.pc = "contactPages" -> "AcquiringContacts"
    [] l.pc \in {"writeTxt", "extracting", "writeJson"} -> "Extracting"
    [] l.pc = "writeEmptyJson" -> "RecordingEmpty"
    [] l.pc = "returned" -> IF l.out.success THEN "Done" ELSE "Failed"

StageRank(stage) ==
  CASE stage = "Pending" -> 0
    [] stage = "Acquiring" -> 1
    [] stage = "RenderingFallback" -> 2
    [] stage = "AcquiringContacts" -> 4
    [] stage \in {"Extracting", "RecordingEmpty"} -> 5
    [] stage \in {"Done", "Failed"} -> 6

\* a step of the call keeps the order of the stages
StageStep ==
  LET from == StageOf(site)
      to == StageOf(site')
  IN  /\ StageRank(to) >= StageRank(from)
      /\ to # from =>
           /\ from = "Pending" <=> to = "Acquiring"
           /\ to = "RenderingFallback" =>
                 /\ from = "Acquiring"
                 /\ chainPc = "returned"
                 /\ site'.downloadSuccess
           /\ to = "AcquiringContacts" =>
                 /\ from \in {"Acquiring", "RenderingFallback"}
                 /\ site'.located /\ Len(site'.contactLinks) > 0
           /\ to = "Extracting" =>
                 /\ site'.downloadSuccess
                 /\ IF Len(site'.contactLinks) > 0
                    THEN from = "AcquiringContacts"
                    ELSE from \in {"Acquiring", "RenderingFallback"}
           /\ to = "RecordingEmpty" => from = "Acquiring" /\ chainPc = "thrown"
           /\ to \in {"Done", "Failed"} => from \in {"Extracting", "RecordingEmpty"}
      /\ site'.located /\ ~site.located =>
           /\ from \in {"Acquiring", "RenderingFallback"}
           /\ site'.downloadSuccess

\* C29: the stages of a call occur only in the order Pending, Acquiring,
\* RenderingFallback, LocatingContacts, AcquiringContacts, Extracting, Done or
\* Failed; the rendering fallback starts only after an acquisition that
\* succeeded, the contact links are located only after the download stage, and
\* the extraction starts only when the contact pages, if any were found, have
\* been fetched.
C29_StageOrder == [][StageStep]_vars

\* a call that went through every stage
C29_Witness ==
  /\ site.pc = "returned"
  /\ site.rendering = "ok"
  /\ Len(site.contactLinks) > 0
  /\ site.req > 0
  /\ site.out.success

(***************************************************************************)
(* C30: the pipelines of the pool and the SiteProcessor they run on.       *)
(***************************************************************************)
\* the positions whose call of processSite is running
Running == {i \in DOMAIN pipeline : pipeline[i].pc = "processSite"}

\* every running call holds the per-site state it made for its own site, and
\* no step changes the state of a call that goes on running
OwnState ==
  /\ \A i \in Running :
        pipeline[i].siteData.siteName = siteNameOf(poolSites[i])
  /\ \A i \in Running :
        i \in DOMAIN pipeline' /\ pipeline'[i].pc = "processSite" =>
           pipeline'[i] = pipeline[i]

\* C30 as stated: no two pipelines that run at the same time run on the same
\* SiteProcessor, and no pipeline reads or writes the per-site state of
\* another.
C30_NoSharedOrchestrator ==
  /\ [](\A i, j \in Running : i # j => pipeline[i].on # pipeline[j].on)
  /\ [][OwnState]_vars

\* C30, amended: all pipelines run on the one SiteProcessor runApp made, which
\* no step of a pipeline changes, and no pipeline reads or writes the per-site
\* state of another: that state is held by the call of processSite itself.
C30_SharedOrchestratorOwnState ==
  /\ [](\A i \in Running : pipeline[i].on = processor.id)
  /\ [][poolPc # "idle" => processor' = processor]_vars
  /\ [][OwnState]_vars

\* two pipelines for different sites run at the same time
C30_Witness ==
  \E i, j \in Running :
     /\ i # j
     /\ pipeline[i].on = pipeline[j].on
     /\ pipeline[i].siteData.siteName # pipeline[j].siteData.siteName

(***************************************************************************)
(* C31.  Single-writer result sink: at most one queued file operation      *)
(* executes at any time, the operations run in the order they were         *)
(* enqueued, every enqueued operation is eventually run even if an earlier *)
(* one failed, and the read-modify-write updates of all_results.json never *)
(* interleave: an operation writes back what the file still holds, and the *)
(* key of every update that was written stays in the file.                 *)
(***************************************************************************)
Executing == {k \in DOMAIN sink.ops : sink.ops[k].pc \in {"reading", "writing"}}

\* the operations whose write returned, for the site name h
Stored(h) == {k \in DOMAIN sink.ops : sink.ops[k].stored /\ sink.ops[k].siteName = h}

SingleWriter ==
  /\ Cardinality(Executing) <= 1
  /\ \A i \in DOMAIN sink.started : sink.started[i] = i
  /\ \A k \in DOMAIN sink.ops :
        sink.ops[k].pc = "writing" => sink.ops[k].read = sink.file
  /\ \A h \in HostNames :
        sink.file[h] = IF Stored(h) = {} THEN 0
                       ELSE CHOOSE k \in Stored(h) : \A j \in Stored(h) : j <= k

C31_SingleWriterSink ==
  /\ []SingleWriter
  /\ \A k \in 1..MaxOps :
        (k \in DOMAIN sink.ops)
           ~> (/\ k \in DOMAIN sink.ops
               /\ sink.ops[k].pc = "settled"
               /\ sink.ops[k].handle = "resolved")

\* the first operation failed, the second runs and is about to write, and
\* the third waits in the queue
C31_Witness ==
  /\ Len(sink.ops) = 3
  /\ sink.ops[1].pc = "settled" /\ ~sink.ops[1].stored
  /\ sink.ops[2].pc = "writing"
  /\ sink.queue = <<3>>
  /\ sink.ops[2].siteName # sink.ops[3].siteName

\* the three updates were written one after the other
C31_AllStored ==
  /\ Len(sink.ops) = 3
  /\ \A k \in 1..3 : sink.ops[k].stored
  /\ sink.file = [h \in HostNames |-> IF h = "a.example" THEN 3 ELSE 2]

(***************************************************************************)
(* C32.  Readability selection: the qualifying candidates are the elements *)
(* with score > 10, text length > 200 and no positively-matching ancestor  *)
(* within three levels; findMainContent returns the qualifying candidate   *)
(* of maximal score, the first encountered among equal scores, and only if *)
(* its score is > 20; otherwise it returns null and raises no error.  For  *)
(* a page of one article of 40 paragraphs and a nav sidebar the article is *)
(* returned.                                                               *)
(***************************************************************************)
\* the ancestor of el that is level levels above it
RECURSIVE AncestorAt(_, _, _)
AncestorAt(doc, el, level) ==
  IF level = 0 \/ el = NoElement THEN el
  ELSE AncestorAt(doc, parentOf(doc, el), level - 1)

Qualifying(doc) ==
  {el \in DOMAIN doc.elements :
     /\ selectorMatches(doc.elements[el])
     /\ total(doc, el, "text") > 200
     /\ \A level \in 1..3 :
           LET ancestor == AncestorAt(doc, el, level)
           IN  ancestor # NoElement
                 => ~testWords(positiveWords, classAndId(doc, ancestor))
     /\ scoreOf(doc, el) > 10}

\* the qualifying candidates no other one goes before
Best(doc) ==
  LET qualifying == Qualifying(doc)
      score == [el \in qualifying |-> scoreOf(doc, el)]
  IN  {el \in qualifying :
         \A other \in qualifying :
            \/ score[other] < score[el]
            \/ score[other] = score[el] /\ el <= other}

\* a page whose elements are an article of 40 paragraphs and a nav sidebar
ArticleAndNav(doc) ==
  /\ Len(doc.elements) = 2
  /\ \E a, n \in 1..2 :
        /\ doc.elements[a].tag = "article" /\ doc.elements[a].p = 40
        /\ doc.elements[n].tag = "nav"
        /\ doc.elements[a].parent = BodyElement
        /\ doc.elements[n].parent = BodyElement
  /\ doc.html = <<>> /\ doc.body = <<>>

C32_ReadabilitySelection ==
  scoring.pc = "returned" =>
    LET doc == scoring.doc
        best == Best(doc)
    IN  /\ scoring.out # Null
              <=> \E el \in best : scoreOf(doc, el) > 20
        /\ scoring.out # Null
              => \E el \in best : scoring.out = htmlOf(el)
        /\ ArticleAndNav(doc)
              => /\ scoring.out # Null
                 /\ doc.elements[scoring.out.element].tag = "article"

\* two candidates of the highest score, and the first one is returned
C32_Witness ==
  /\ scoring.pc = "returned"
  /\ scoring.out # Null
  /\ \E other \in Qualifying(scoring.doc) :
        /\ other > scoring.out.element
        /\ scoreOf(scoring.doc, other) = scoreOf(scoring.doc, scoring.out.element)
        /\ ~inSubtree(scoring.doc, scoring.out.element, other)

\* the page of the article and the nav sidebar
C32_ArticleSelected ==
  /\ scoring.pc = "returned"
  /\ ArticleAndNav(scoring.doc)
  /\ scoring.doc.elements[1].tag = "nav"
  /\ scoring.out = htmlOf(2)

\* the best candidate has a score of 20 and nothing is returned
C32_BelowThreshold ==
  /\ scoring.pc = "returned"
  /\ scoring.out = Null
  /\ \E el \in Best(scoring.doc) : scoreOf(scoring.doc, el) = 20

\* an element under html with a positive class: the third element of a
\* chain is a candidate, the second is not
C32_ThreeLevels ==
  /\ scoring.pc = "returned"
  /\ scoring.doc.html # <<>>
  /\ Len(scoring.doc.elements) = 3
  /\ scoring.doc.elements[2].parent = 1 /\ scoring.doc.elements[3].parent = 2
  /\ scoring.out = htmlOf(3)
  /\ scoreOf(scoring.doc, 2) >= scoreOf(scoring.doc, 3)

(***************************************************************************)
(* C33.  Duplicate site identifiers: when queueItem is called twice with   *)
(* the same siteName while the first request is still unsettled (the two   *)
(* requests in the same batch or in consecutive batches), both promises    *)
(* are eventually resolved or rejected: the second call does not leave the *)
(* first caller's promise pending forever.                                 *)
(***************************************************************************)
\* the requests that wait in the queue or are in the batch of a flush
Pending == Range(queue) \cup UNION {Range(f.currentBatch) : f \in flights}

\* r1 and r2 were enqueued with one site name and neither is settled
DuplicateUnsettled(r1, r2) ==
  /\ r1 < r2
  /\ {r1, r2} \subseteq awaiting
  /\ \E s \in Sites :
        {[siteName |-> s, req |-> r1], [siteName |-> s, req |-> r2]} \subseteq Pending

C33_DuplicatesSettled ==
  \A r1, r2 \in 1..MaxEnqueue :
     DuplicateUnsettled(r1, r2) ~> (r1 \notin awaiting /\ r2 \notin awaiting)

(***************************************************************************)
(* C34.  Batch isolation of results: a request's promise is settled only   *)
(* by the flush whose batch contains that request; a key of the response   *)
(* that names a site enqueued after the flush started, and waiting for the *)
(* next flush, does not resolve that request with the data of the current  *)
(* flush.                                                                  *)
(***************************************************************************)
C34_BatchIsolation ==
  ev.op = "flushDone" =>
    \A i \in DOMAIN ev.log : ev.log[i].req \in ReqsOf(ev.batch)

(***************************************************************************)
(* C35.  End-to-end termination: for a non-empty input list, when every    *)
(* page fetch, browser session and inference call returns or fails, every  *)
(* site's pipeline eventually ends and the run terminates; no worker waits *)
(* forever on its extraction request, although runApp drains the batch     *)
(* processor only when all workers have finished.                          *)
(***************************************************************************)
\* runApp got the counters of the pool and its drain call returned
RunTerminated == poolPc = "returned" /\ nDrain > 0 /\ flights = {}

C35_RunTerminates ==
  /\ \A i \in 1..MaxSites :
        (poolPc = "running" /\ i \in DOMAIN pipeline)
          ~> (i \in DOMAIN pipeline /\ pipeline[i].pc = "done")
  /\ (poolPc = "running") ~> RunTerminated

(***************************************************************************)
(* C36.  Worker pool completion: for every list of sites, the empty list   *)
(* and lists shorter than the concurrency limit included, when each call   *)
(* of processSite returns, the completion promise of                       *)
(* processWithWorkerQueue is resolved exactly once, and only after every   *)
(* site has finished processing: activeWorkers reaches 0 only when the     *)
(* queue is empty and no pipeline is running.                              *)
(***************************************************************************)
AllFinished ==
  /\ siteQueue = <<>>
  /\ \A i \in DOMAIN pipeline : pipeline[i].pc = "done"

FailureKinds == {"download", "llm", "unexpected"}

EverySiteCounted == counts.successCount + counts.errorCount = Len(poolSites)

\* the step in which processSite resolved for position i with a failure
\* classification
ClassifiedResult(i) ==
  /\ pipeline[i].pc = "processSite"
  /\ pipeline'[i].pc \in {"logError", "fileOp"}
  /\ pipeline'[i].outcome \in FailureKinds

C37_FailureAccounting ==
  /\ [](poolPc = "returned" =>
          /\ EverySiteCounted
          /\ counts.errorCount = counts.downloadErrorCount + counts.llmErrorCount
                                   + counts.unexpectedErrorCount)
  /\ [][\A i \in DOMAIN pipeline :
          /\ ClassifiedResult(i) =>
                /\ counts'.successCount = counts.successCount
                /\ pipeline'[i].pc = "logError"
          /\ pipeline[i].pc = "logError" /\ pipeline'[i].pc = "fileOp" =>
                counts'.errorCount = counts.errorCount + 1]_vars

(***************************************************************************)
(* C38.  Browser session lifecycle: every browser launched by download or  *)
(* by processContactPages is closed before the operation returns or        *)
(* throws, on success, on a navigation or evaluation failure and on a      *)
(* timeout: when the operation has ended, browser.close() was called on    *)
(* every browser launched and has settled, and no browser is open.         *)
(***************************************************************************)
RenderEnded == render.pc \in {"returned", "thrown"}

C38_SessionsClosed ==
  RenderEnded =>
     /\ render.browser # "open"
     /\ render.closes = render.launches
     /\ render.browser = "undefined" <=> render.launches = 0

\* download threw after its navigation timed out, with its browser closed
C38_Witness ==
  /\ render.pc = "thrown"
  /\ render.op = "download"
  /\ render.failedAt = "goto"
  /\ render.cause = "timeout"
  /\ render.browser = "closed"

\* processContactPages returned with its browser closed after a link failed
C38_ContactsClosed ==
  /\ render.pc = "returned"
  /\ render.op = "contacts"
  /\ render.failureCount > 0
  /\ render.browser = "closed"

(***************************************************************************)
(* C39.  Batch size bound: the batch sent in one inference call never      *)
(* contains more than batchSize (20) requests, for any interleaving of     *)
(* enqueues with a flush in flight.                                        *)
(***************************************************************************)
C39_BatchSizeBound == \A f \in flights : Len(f.currentBatch) <= batchSize

\* C39 as amended: a flush started by queueItem or by the timer never has
\* more than batchSize requests; a flush started by the finally block of
\* the flush before it has every request enqueued meanwhile, batchSize of
\* them or more.
C39_BoundUnlessRestart ==
  ev.started =>
     \A f \in flights :
        /\ ev.op # "flushDone" => Len(f.currentBatch) <= batchSize
        /\ ev.op = "flushDone" => Len(f.currentBatch) >= batchSize
        /\ queue = <<>>

\* 21 callers arrived during the first flush, whose end starts a flush of 21
C39_Witness ==
  /\ ev.op = "flushDone"
  /\ ev.started
  /\ \E f \in flights : Len(f.currentBatch) = batchSize + 1

====
